---- MODULE Spec2Model ----
(***************************************************************************)
(* GuardSkills / AgentGuard: the hook decision engine (evaluateHook), the  *)
(* protection-level arbitrator, the Action Scanner dispatcher with its     *)
(* exec and file handlers, and the registry storage they consult.          *)
(* Strings are sequences of one-character strings so that the substring,   *)
(* prefix and regular-expression tests of the source are computed, not     *)
(* assumed.                                                                *)
(***************************************************************************)
EXTENDS Integers, Sequences, FiniteSets, TLC

(***************************************************************************)
(* Bounds of the model                                                     *)
(***************************************************************************)
\* A command of the scanner specification is a concatenation of at most
\* MaxParts fragments of CommandFragments.
MaxParts == 2

(***************************************************************************)
(* String helpers (JavaScript String methods on character sequences)       *)
(***************************************************************************)
UpperChars == <<"A","B","C","D","E","F","G","H","I","J","K","L","M",
                "N","O","P","Q","R","S","T","U","V","W","X","Y","Z">>

LowerChars == <<"a","b","c","d","e","f","g","h","i","j","k","l","m",
                "n","o","p","q","r","s","t","u","v","w","x","y","z">>

DigitChars == {"0","1","2","3","4","5","6","7","8","9"}

Range(f) == {f[i] : i \in DOMAIN f}

\* \w of a JavaScript regular expression
WordChars == Range(UpperChars) \cup Range(LowerChars) \cup DigitChars \cup {"_"}

IsWordChar(c) == c \in WordChars

\* \s of a JavaScript regular expression (the characters the model uses)
IsSpaceChar(c) == c \in {" ", "\t", "\n"}

\* . of a JavaScript regular expression: anything but a line terminator
IsDotChar(c) == c \notin {"\n", "\r"}

LowerOf == [c \in Range(UpperChars) |-> LowerChars[CHOOSE i \in 1..26 : UpperChars[i] = c]]

UpperOf == [c \in Range(LowerChars) |-> UpperChars[CHOOSE i \in 1..26 : LowerChars[i] = c]]

toLowerChar(c) == IF c \in DOMAIN LowerOf THEN LowerOf[c] ELSE c

toUpperChar(c) == IF c \in DOMAIN UpperOf THEN UpperOf[c] ELSE c

toLowerCase(s) == [i \in 1..Len(s) |-> toLowerChar(s[i])]

toUpperCase(s) == [i \in 1..Len(s) |-> toUpperChar(s[i])]

startsWith(s, p) == Len(p) <= Len(s) /\ SubSeq(s, 1, Len(p)) = p

endsWith(s, p) == Len(p) <= Len(s) /\ SubSeq(s, Len(s) - Len(p) + 1, Len(s)) = p

includes(s, p) == \E i \in 0..(Len(s) - Len(p)) : SubSeq(s, i + 1, i + Len(p)) = p

\* s.slice(n): the characters after the first n
sliceFrom(s, n) == IF n >= Len(s) THEN <<>> ELSE SubSeq(s, n + 1, Len(s))

\* s.slice(0, -n)
sliceDropLast(s, n) == IF n >= Len(s) THEN <<>> ELSE SubSeq(s, 1, Len(s) - n)

\* args.join(' ')
RECURSIVE joinSpace(_)
joinSpace(args) ==
  IF Len(args) = 0 THEN <<>>
  ELSE IF Len(args) = 1 THEN args[1]
  ELSE args[1] \o <<" ">> \o joinSpace(Tail(args))

\* s.replace(/\\/g, '/')
replaceBackslashes(s) == [i \in 1..Len(s) |-> IF s[i] = "\\" THEN "/" ELSE s[i]]

\* the elements of list accepted by Test, in order, each mapped to tag
RECURSIVE tagsFor(_, _, _)
tagsFor(list, Test(_), tag) ==
  IF Len(list) = 0 THEN <<>>
  ELSE (IF Test(Head(list)) THEN <<tag>> ELSE <<>>) \o tagsFor(Tail(list), Test, tag)

\* positions a run of \s* starting at position i can end before
afterSpaces(s, i) == {j \in i..(Len(s) + 1) : \A k \in i..(j - 1) : IsSpaceChar(s[k])}

\* .* between positions i and j (exclusive) holds no line terminator
dotRun(s, i, j) == \A k \in (i + 1)..(j - 1) : IsDotChar(s[k])

(***************************************************************************)
(* Pattern lists of the detectors                                          *)
(***************************************************************************)
SAFE_COMMAND_PREFIXES ==
  << <<"l","s">>,
     <<"e","c","h","o">>,
     <<"p","w","d">>,
     <<"w","h","o","a","m","i">>,
     <<"d","a","t","e">>,
     <<"h","o","s","t","n","a","m","e">>,
     <<"u","n","a","m","e">>,
     <<"c","a","t">>,
     <<"h","e","a","d">>,
     <<"t","a","i","l">>,
     <<"w","c">>,
     <<"g","r","e","p">>,
     <<"f","i","n","d">>,
     <<"w","h","i","c","h">>,
     <<"t","y","p","e">>,
     <<"t","r","e","e">>,
     <<"d","u">>,
     <<"d","f">>,
     <<"s","o","r","t">>,
     <<"u","n","i","q">>,
     <<"d","i","f","f">>,
     <<"c","d">>,
     <<"m","k","d","i","r">>,
     <<"c","p">>,
     <<"m","v">>,
     <<"t","o","u","c","h">>,
     <<"g","i","t"," ","s","t","a","t","u","s">>,
     <<"g","i","t"," ","l","o","g">>,
     <<"g","i","t"," ","d","i","f","f">>,
     <<"g","i","t"," ","b","r","a","n","c","h">>,
     <<"g","i","t"," ","s","h","o","w">>,
     <<"g","i","t"," ","r","e","m","o","t","e">>,
     <<"g","i","t"," ","c","l","o","n","e">>,
     <<"g","i","t"," ","c","h","e","c","k","o","u","t">>,
     <<"g","i","t"," ","p","u","l","l">>,
     <<"g","i","t"," ","f","e","t","c","h">>,
     <<"g","i","t"," ","m","e","r","g","e">>,
     <<"g","i","t"," ","a","d","d">>,
     <<"g","i","t"," ","c","o","m","m","i","t">>,
     <<"g","i","t"," ","p","u","s","h">>,
     <<"n","p","m"," ","i","n","s","t","a","l","l">>,
     <<"n","p","m"," ","r","u","n">>,
     <<"n","p","m"," ","t","e","s","t">>,
     <<"n","p","m"," ","c","i">>,
     <<"n","p","m"," ","s","t","a","r","t">>,
     <<"n","p","x">>,
     <<"y","a","r","n">>,
     <<"p","n","p","m">>,
     <<"p","i","p"," ","i","n","s","t","a","l","l">>,
     <<"p","i","p","3"," ","i","n","s","t","a","l","l">>,
     <<"n","o","d","e"," ","-","-","v","e","r","s","i","o","n">>,
     <<"n","o","d","e"," ","-","v">>,
     <<"n","p","m"," ","-","-","v","e","r","s","i","o","n">>,
     <<"n","p","m"," ","-","v">>,
     <<"n","p","x"," ","-","-","v","e","r","s","i","o","n">>,
     <<"p","y","t","h","o","n"," ","-","-","v","e","r","s","i","o","n">>,
     <<"p","y","t","h","o","n","3"," ","-","-","v","e","r","s","i","o","n">>,
     <<"p","i","p"," ","-","-","v","e","r","s","i","o","n">>,
     <<"t","s","c"," ","-","-","v","e","r","s","i","o","n">>,
     <<"g","o"," ","v","e","r","s","i","o","n">>,
     <<"r","u","s","t","c"," ","-","-","v","e","r","s","i","o","n">>,
     <<"j","a","v","a"," ","-","v","e","r","s","i","o","n">>,
     <<"t","s","c">>,
     <<"g","o"," ","b","u","i","l","d">>,
     <<"g","o"," ","r","u","n">>,
     <<"c","a","r","g","o"," ","b","u","i","l","d">>,
     <<"c","a","r","g","o"," ","r","u","n">>,
     <<"c","a","r","g","o"," ","t","e","s","t">>,
     <<"m","a","k","e">> >>

DANGEROUS_COMMANDS ==
  << <<"r","m"," ","-","r","f">>,
     <<"r","m"," ","-","f","r">>,
     <<"m","k","f","s">>,
     <<"d","d"," ","i","f","=">>,
     <<"c","h","m","o","d"," ","7","7","7">>,
     <<"c","h","m","o","d"," ","-","R"," ","7","7","7">>,
     <<">"," ","/","d","e","v","/","s","d","a">>,
     <<"m","v"," ","/","*"," ">>,
     <<"w","g","e","t",".","*","\\","|",".","*","s","h">>,
     <<"c","u","r","l",".","*","\\","|",".","*","s","h">>,
     <<"c","u","r","l",".","*","\\","|",".","*","b","a","s","h">>,
     <<"w","g","e","t",".","*","\\","|",".","*","b","a","s","h">> >>

SENSITIVE_COMMANDS ==
  << <<"c","a","t"," ","/","e","t","c","/","p","a","s","s","w","d">>,
     <<"c","a","t"," ","/","e","t","c","/","s","h","a","d","o","w">>,
     <<"c","a","t"," ","~","/",".","s","s","h">>,
     <<"c","a","t"," ","~","/",".","a","w","s">>,
     <<"c","a","t"," ","~","/",".","k","u","b","e">>,
     <<"c","a","t"," ","~","/",".","n","p","m","r","c">>,
     <<"c","a","t"," ","~","/",".","n","e","t","r","c">>,
     <<"p","r","i","n","t","e","n","v">>,
     <<"e","n","v">>,
     <<"s","e","t">> >>

SYSTEM_COMMANDS ==
  << <<"s","u","d","o">>,
     <<"s","u"," ">>,
     <<"c","h","o","w","n">>,
     <<"c","h","m","o","d">>,
     <<"c","h","g","r","p">>,
     <<"u","s","e","r","a","d","d">>,
     <<"u","s","e","r","d","e","l">>,
     <<"g","r","o","u","p","a","d","d">>,
     <<"p","a","s","s","w","d">>,
     <<"v","i","s","u","d","o">>,
     <<"s","y","s","t","e","m","c","t","l">>,
     <<"s","e","r","v","i","c","e"," ">>,
     <<"i","n","i","t"," ">>,
     <<"s","h","u","t","d","o","w","n">>,
     <<"r","e","b","o","o","t">>,
     <<"h","a","l","t">> >>

NETWORK_COMMANDS ==
  << <<"c","u","r","l"," ">>,
     <<"w","g","e","t"," ">>,
     <<"n","c"," ">>,
     <<"n","e","t","c","a","t">>,
     <<"n","c","a","t">>,
     <<"s","s","h"," ">>,
     <<"s","c","p"," ">>,
     <<"r","s","y","n","c"," ">>,
     <<"f","t","p"," ">>,
     <<"s","f","t","p"," ">> >>

SENSITIVE_PATHS ==
  << <<".","e","n","v">>,
     <<".","e","n","v",".","l","o","c","a","l">>,
     <<".","e","n","v",".","p","r","o","d","u","c","t","i","o","n">>,
     <<".","s","s","h","/">>,
     <<"i","d","_","r","s","a">>,
     <<"i","d","_","e","d","2","5","5","1","9">>,
     <<".","a","w","s","/","c","r","e","d","e","n","t","i","a","l","s">>,
     <<".","a","w","s","/","c","o","n","f","i","g">>,
     <<".","n","p","m","r","c">>,
     <<".","n","e","t","r","c">>,
     <<"c","r","e","d","e","n","t","i","a","l","s",".","j","s","o","n">>,
     <<"s","e","r","v","i","c","e","A","c","c","o","u","n","t","K","e","y",".","j","s","o","n">>,
     <<".","k","u","b","e","/","c","o","n","f","i","g">> >>

sensitiveEnvKeys ==
  << <<"A","P","I","_","K","E","Y">>,
     <<"S","E","C","R","E","T">>,
     <<"P","A","S","S","W","O","R","D">>,
     <<"T","O","K","E","N">>,
     <<"P","R","I","V","A","T","E">>,
     <<"C","R","E","D","E","N","T","I","A","L">> >>

\* The grave accent is written as the one-character atom "bq".
BACKQUOTE == "bq"

\* SHELL_METACHAR_PATTERN = /[;|&bq$(){}]/
SHELL_METACHARS == {";", "|", "&", BACKQUOTE, "$", "(", ")", "{", "}"}

SHELL_METACHAR_PATTERN(s) == \E i \in 1..Len(s) : s[i] \in SHELL_METACHARS

\* FORK_BOMB_PATTERNS[0] = /:\s*\(\s*\)\s*\{.*:\s*\|\s*:.*&.*\}/
forkBombColon(s) ==
  \E i0 \in 1..Len(s) : s[i0] = ":" /\
  \E i1 \in afterSpaces(s, i0 + 1) : i1 <= Len(s) /\ s[i1] = "(" /\
  \E i2 \in afterSpaces(s, i1 + 1) : i2 <= Len(s) /\ s[i2] = ")" /\
  \E i3 \in afterSpaces(s, i2 + 1) : i3 <= Len(s) /\ s[i3] = "{" /\
  \E i4 \in (i3 + 1)..Len(s) : s[i4] = ":" /\ dotRun(s, i3, i4) /\
  \E i5 \in afterSpaces(s, i4 + 1) : i5 <= Len(s) /\ s[i5] = "|" /\
  \E i6 \in afterSpaces(s, i5 + 1) : i6 <= Len(s) /\ s[i6] = ":" /\
  \E i7 \in (i6 + 1)..Len(s) : s[i7] = "&" /\ dotRun(s, i6, i7) /\
  \E i8 \in (i7 + 1)..Len(s) : s[i8] = "}" /\ dotRun(s, i7, i8)

\* FORK_BOMB_PATTERNS[1] = /\bfork\s*bomb\b/i
forkBombWord(s) ==
  LET l == toLowerCase(s) IN
  \E i \in 1..Len(l) :
    /\ i + 3 <= Len(l)
    /\ SubSeq(l, i, i + 3) = <<"f","o","r","k">>
    /\ (i = 1 \/ ~IsWordChar(l[i - 1]))
    /\ \E j \in afterSpaces(l, i + 4) :
         /\ j + 3 <= Len(l)
         /\ SubSeq(l, j, j + 3) = <<"b","o","m","b">>
         /\ (j + 3 = Len(l) \/ ~IsWordChar(l[j + 4]))

FORK_BOMB_PATTERNS(s) == forkBombColon(s) \/ forkBombWord(s)

\* /X\s*\w+/ for a one- or two-character operator X
opThenWord(s, op) ==
  \E i \in 1..Len(s) :
    /\ i + Len(op) - 1 <= Len(s)
    /\ SubSeq(s, i, i + Len(op) - 1) = op
    /\ \E j \in afterSpaces(s, i + Len(op)) : j <= Len(s) /\ IsWordChar(s[j])

\* /bq[^bq]+bq/
backtickPair(s) ==
  \E i \in 1..Len(s) : \E j \in (i + 2)..Len(s) :
    s[i] = BACKQUOTE /\ s[j] = BACKQUOTE /\ \A k \in (i + 1)..(j - 1) : s[k] # BACKQUOTE

\* /\$\([^)]+\)/
dollarParen(s) ==
  \E i \in 1..Len(s) : \E j \in (i + 3)..Len(s) :
    /\ s[i] = "$" /\ s[i + 1] = "(" /\ s[j] = ")"
    /\ \A k \in (i + 2)..(j - 1) : s[k] # ")"

shellInjectionPatterns(s) ==
  \/ opThenWord(s, <<";">>)
  \/ opThenWord(s, <<"|">>)
  \/ backtickPair(s)
  \/ dollarParen(s)
  \/ opThenWord(s, <<"&","&">>)
  \/ opThenWord(s, <<"|","|">>)

(***************************************************************************)
(* Exec detector                                                           *)
(***************************************************************************)
RiskLevels == {"low", "medium", "high", "critical"}

\* command.args ? command.command + ' ' + command.args.join(' ') : command.command
fullCommandOf(command) ==
  IF command.has_args
    THEN command.command \o <<" ">> \o joinSpace(command.args)
    ELSE command.command

\* x.toLowerCase() of every entry of a pattern list
lowered(list) == [i \in 1..Len(list) |-> toLowerCase(list[i])]

DANGEROUS_LOWER == lowered(DANGEROUS_COMMANDS)

SENSITIVE_LOWER == lowered(SENSITIVE_COMMANDS)

SYSTEM_LOWER == lowered(SYSTEM_COMMANDS)

NETWORK_LOWER == lowered(NETWORK_COMMANDS)

isDangerous(lowerCommand) ==
  \E i \in 1..Len(DANGEROUS_LOWER) : includes(lowerCommand, DANGEROUS_LOWER[i])

hasSensitiveCommand(lowerCommand) ==
  \E i \in 1..Len(SENSITIVE_LOWER) : includes(lowerCommand, SENSITIVE_LOWER[i])

\* a safe-list test that misses the prefix-plus-space form
isSafePrefix_exactOnly(lowerCommand) ==
  \E i \in 1..Len(SAFE_COMMAND_PREFIXES) : lowerCommand = SAFE_COMMAND_PREFIXES[i]

isSafePrefix(lowerCommand) ==
  \E i \in 1..Len(SAFE_COMMAND_PREFIXES) :
    \/ lowerCommand = SAFE_COMMAND_PREFIXES[i]
    \/ startsWith(lowerCommand, SAFE_COMMAND_PREFIXES[i] \o <<" ">>)

\* lowerCommand.startsWith(w) || lowerCommand.includes(' ' + w), w lowercased
startsOrFollowsSpace(lowerCommand, w) ==
  startsWith(lowerCommand, w) \/ includes(lowerCommand, <<" ">> \o w)

\* env: the keys of command.env, empty when the command carries none
sensitiveEnvTags(env) ==
       tagsFor(env,
               LAMBDA key : \E i \in 1..Len(sensitiveEnvKeys) :
                              includes(toUpperCase(key), sensitiveEnvKeys[i]),
               "SENSITIVE_ENV_VAR")

analyzeExecCommand(command, execAllowed) ==
  LET fullCommand  == fullCommandOf(command)
      lowerCommand == toLowerCase(fullCommand)
      forkBomb     == FORK_BOMB_PATTERNS(fullCommand)
      dangerous    == ~forkBomb /\ isDangerous(lowerCommand)
      critical     == forkBomb \/ dangerous
      dangerTags   == IF critical THEN <<"DANGEROUS_COMMAND">> ELSE <<>>
      sensTags     == tagsFor(SENSITIVE_LOWER,
                        LAMBDA x : includes(lowerCommand, x),
                        "SENSITIVE_DATA_ACCESS")
      sysTags      == tagsFor(SYSTEM_LOWER,
                        LAMBDA x : startsOrFollowsSpace(lowerCommand, x),
                        "SYSTEM_COMMAND")
      netTags      == tagsFor(NETWORK_LOWER,
                        LAMBDA x : startsOrFollowsSpace(lowerCommand, x),
                        "NETWORK_COMMAND")
      injTags      == IF shellInjectionPatterns(fullCommand)
                        THEN <<"SHELL_INJECTION_RISK">> ELSE <<>>
      level1       == IF critical THEN "critical" ELSE "low"
      level2       == IF Len(sensTags) > 0 /\ level1 # "critical" THEN "high" ELSE level1
      level3       == IF Len(sysTags) > 0 /\ level2 = "low" THEN "medium" ELSE level2
      level4       == IF Len(netTags) > 0 /\ level3 = "low" THEN "medium" ELSE level3
      level5       == IF Len(injTags) > 0 /\ level4 = "low" THEN "medium" ELSE level4
      blockReason  ==
        IF forkBomb THEN "Dangerous command: fork bomb"
        ELSE IF dangerous THEN "Dangerous command: "
        ELSE IF execAllowed THEN ""
        ELSE "Command execution not allowed"
      blockMatch   ==
        IF dangerous
          THEN DANGEROUS_COMMANDS[
                 CHOOSE i \in 1..Len(DANGEROUS_LOWER) :
                   /\ includes(lowerCommand, DANGEROUS_LOWER[i])
                   /\ \A j \in 1..(i - 1) : ~includes(lowerCommand, DANGEROUS_LOWER[j])]
          ELSE <<>>
  IN
  IF /\ ~critical
     /\ ~SHELL_METACHAR_PATTERN(fullCommand)
     /\ ~hasSensitiveCommand(lowerCommand)
     /\ isSafePrefix(lowerCommand)
    THEN [risk_level |-> "low", risk_tags |-> <<>>, should_block |-> FALSE,
          block_reason |-> "", block_match |-> <<>>]
    ELSE [risk_level   |-> level5,
          risk_tags    |-> dangerTags \o sensTags \o sysTags \o netTags \o injTags
                             \o sensitiveEnvTags(command.env),
          should_block |-> (~execAllowed) \/ critical,
          block_reason |-> blockReason,
          block_match  |-> blockMatch]

(***************************************************************************)
(* Capabilities and the registry storage                                   *)
(***************************************************************************)
\* the "none" preset: what lookup gives a skill without usable record
CAPABILITY_NONE ==
  [network_allowlist |-> <<>>, filesystem_allowlist |-> <<>>,
   exec |-> "deny", secrets_allowlist |-> <<>>]

STAR == <<"*">>

PROJECT_GLOB == <<"/","p","/","*","*">>

\* the capability sets of the model: nothing, files of the project, exec
\* alone, everything
CapabilitySets ==
  { CAPABILITY_NONE,
    [network_allowlist |-> <<>>, filesystem_allowlist |-> <<PROJECT_GLOB>>,
     exec |-> "deny", secrets_allowlist |-> <<>>],
    [network_allowlist |-> <<>>, filesystem_allowlist |-> <<>>,
     exec |-> "allow", secrets_allowlist |-> <<>>],
    [network_allowlist |-> <<STAR>>, filesystem_allowlist |-> <<STAR>>,
     exec |-> "allow", secrets_allowlist |-> <<>>] }

TrustLevels == {"untrusted", "restricted", "trusted"}

Statuses == {"active", "revoked"}

\* sources a trust record is stored for
Sources == {"skillA"}

NoRecord == [null |-> TRUE]

\* the identity both the adapters and getSkillTrustPolicy build for a source
skillIdentity(id, source) ==
  [id |-> id, source |-> source, version_ref |-> "0.0.0", artifact_hash |-> ""]

\* record_key = hash(source ':' version_ref ':' artifact_hash), kept unhashed
generateRecordKey(skill) == <<skill.source, skill.version_ref, skill.artifact_hash>>

TrustRecords ==
  { [record_key |-> generateRecordKey(skillIdentity(s, s)), skill |-> skillIdentity(s, s),
     trust_level |-> t, capabilities |-> c, status |-> st]
      : s \in Sources, t \in TrustLevels, c \in CapabilitySets, st \in Statuses }

\* RegistryStorage.findByKey on the loaded records
findByKey(recs, recordKey) ==
  IF \E i \in 1..Len(recs) : recs[i].record_key = recordKey
    THEN recs[CHOOSE i \in 1..Len(recs) :
                /\ recs[i].record_key = recordKey
                /\ \A j \in 1..(i - 1) : recs[j].record_key # recordKey]
    ELSE NoRecord

\* RegistryStorage.upsert: replace the record of the same key, else append
upsertRecords(recs, record) ==
  IF \E i \in 1..Len(recs) : recs[i].record_key = record.record_key
    THEN LET existingIndex == CHOOSE i \in 1..Len(recs) :
                                /\ recs[i].record_key = record.record_key
                                /\ \A j \in 1..(i - 1) : recs[j].record_key # record.record_key
         IN [recs EXCEPT ![existingIndex] = record]
    ELSE Append(recs, record)

\* what registry.lookup can answer: a trust level and a capability set, with
\* the record they come from or with none; the record is only tested for null
FoundRecord == [null |-> FALSE]

LookupResults ==
  [record : {NoRecord, FoundRecord}, effective_trust_level : TrustLevels,
   effective_capabilities : CapabilitySets]

(***************************************************************************)
(* Action Scanner                                                          *)
(***************************************************************************)
NoExplanation == ""

\* a handler that turns every blocked command into a confirm
handleExecCommand_confirmOnly(command, capabilities) ==
  LET execAllowed == capabilities.exec = "allow"
      analysis    == analyzeExecCommand(command, execAllowed)
  IN
  IF analysis.should_block \/ analysis.risk_level \in {"high", "critical"}
    THEN [decision |-> "confirm", risk_level |-> analysis.risk_level,
          risk_tags |-> analysis.risk_tags,
          explanation |-> "High-risk command requires confirmation"]
  ELSE [decision |-> "allow", risk_level |-> analysis.risk_level,
        risk_tags |-> analysis.risk_tags, explanation |-> NoExplanation]

\* a handler that denies whatever the detector blocks
handleExecCommand_denyBlocked(command, capabilities) ==
  LET execAllowed == capabilities.exec = "allow"
      analysis    == analyzeExecCommand(command, execAllowed)
  IN
  IF analysis.should_block
    THEN [decision |-> "deny", risk_level |-> analysis.risk_level,
          risk_tags |-> analysis.risk_tags,
          explanation |-> IF analysis.block_reason # "" THEN analysis.block_reason
                          ELSE "Command execution blocked"]
  ELSE IF analysis.risk_level \in {"high", "critical"}
    THEN [decision |-> "confirm", risk_level |-> analysis.risk_level,
          risk_tags |-> analysis.risk_tags,
          explanation |-> "High-risk command requires confirmation"]
  ELSE [decision |-> "allow", risk_level |-> analysis.risk_level,
        risk_tags |-> analysis.risk_tags, explanation |-> NoExplanation]

\* ActionScanner.handleExecCommand
handleExecCommand(command, capabilities) ==
  LET execAllowed == capabilities.exec = "allow"
      \* the decision for the detector's analysis
      decisionOf(analysis) ==
        IF analysis.should_block
          THEN [decision    |-> IF analysis.risk_level = "critical" THEN "deny" ELSE "confirm",
                risk_level  |-> analysis.risk_level,
                risk_tags   |-> analysis.risk_tags,
                explanation |-> IF analysis.block_reason # "" THEN analysis.block_reason
                                ELSE "Command execution blocked"]
        ELSE IF analysis.risk_level \in {"high", "critical"}
          THEN [decision |-> "confirm", risk_level |-> analysis.risk_level,
                risk_tags |-> analysis.risk_tags,
                explanation |-> "High-risk command requires confirmation"]
        ELSE [decision |-> "allow", risk_level |-> analysis.risk_level,
              risk_tags |-> analysis.risk_tags, explanation |-> NoExplanation]
  IN decisionOf(analyzeExecCommand(command, execAllowed))

\* one filesystem_allowlist pattern against a path
pathMatchesPattern(path, pattern) ==
  IF pattern = STAR THEN TRUE
  ELSE IF endsWith(pattern, <<"/","*","*">>)
    THEN startsWith(path, sliceDropLast(pattern, 3))
  ELSE IF endsWith(pattern, <<"/","*">>)
    THEN LET prefix    == sliceDropLast(pattern, 2)
             remainder == sliceFrom(path, Len(prefix))
         IN startsWith(path, prefix) /\ ~includes(remainder, <<"/">>)
  ELSE path = pattern \/ startsWith(path, pattern \o <<"/">>)

\* ActionScanner.handleFileOperation
handleFileOperation(file, type, capabilities) ==
  LET isAllowed == \E i \in 1..Len(capabilities.filesystem_allowlist) :
                     pathMatchesPattern(file.path, capabilities.filesystem_allowlist[i])
  IN
  IF isAllowed
    THEN [decision |-> "allow", risk_level |-> "low", risk_tags |-> <<>>,
          explanation |-> NoExplanation]
    ELSE [decision |-> "deny", risk_level |-> "medium", risk_tags |-> <<"PATH_NOT_ALLOWED">>,
          explanation |-> IF type = "read_file" THEN "Read access not allowed"
                          ELSE "Write access not allowed"]

\* ActionScanner.handleSecretAccess
handleSecretAccess(access, capabilities) ==
  IF \E i \in 1..Len(capabilities.secrets_allowlist) :
       capabilities.secrets_allowlist[i] = access.secret_name
    THEN [decision |-> "allow", risk_level |-> "low", risk_tags |-> <<>>,
          explanation |-> NoExplanation]
    ELSE [decision |-> "deny", risk_level |-> "high", risk_tags |-> <<"SECRET_NOT_ALLOWED">>,
          explanation |-> "Access to secret is not allowed"]

\* the call of analyzeNetworkRequest: a url of the model carries the answer
\* the detector gives for it under the allowlist in force
analyzeNetworkRequest(request, network_allowlist) == request.url.answer

\* what the network detector can answer: every risk level, blocking or not,
\* with none or one of the tags handleNetworkRequest tests for
NetAnalyses ==
  [risk_level : RiskLevels, should_block : BOOLEAN,
   risk_tags : {<<>>, <<"UNTRUSTED_DOMAIN">>, <<"CRITICAL_SECRET_EXFIL">>}]

hasTag(tags, t) == \E i \in 1..Len(tags) : tags[i] = t

\* the highest priority among the secret patterns a body_preview matches
\* (0: no match)
SecretPriorities == {0, 50, 90, 100}

\* the tags the network detector gives a body whose best match has the
\* given priority
secretExfilTags(priority) ==
  IF priority >= 90 THEN <<"CRITICAL_SECRET_EXFIL">>
  ELSE IF priority >= 50 THEN <<"POTENTIAL_SECRET_EXFIL">>
  ELSE <<>>

\* the detector's answer for a request carries CRITICAL_SECRET_EXFIL exactly
\* when its body holds a secret of that priority
bodyScanAgrees(request) ==
  hasTag(request.url.answer.risk_tags, "CRITICAL_SECRET_EXFIL")
    <=> hasTag(secretExfilTags(request.body_priority), "CRITICAL_SECRET_EXFIL")

\* a handler without the critical-secret rule
handleNetworkRequest_blockFlagOnly(request, capabilities, userPresent) ==
  LET analysis == request.url.answer IN
  IF analysis.should_block
    THEN [decision |-> "deny", risk_level |-> analysis.risk_level,
          risk_tags |-> analysis.risk_tags, explanation |-> "Request blocked"]
  ELSE IF analysis.risk_level \in {"high", "critical"} \/ hasTag(analysis.risk_tags, "UNTRUSTED_DOMAIN")
    THEN [decision |-> IF userPresent THEN "confirm" ELSE "deny",
          risk_level |-> analysis.risk_level, risk_tags |-> analysis.risk_tags,
          explanation |-> "High-risk request requires confirmation"]
  ELSE [decision |-> "allow", risk_level |-> analysis.risk_level,
        risk_tags |-> analysis.risk_tags, explanation |-> ""]

\* ActionScanner.handleNetworkRequest
handleNetworkRequest(request, capabilities, userPresent) ==
  LET analysis == analyzeNetworkRequest(request, capabilities.network_allowlist) IN
  IF hasTag(analysis.risk_tags, "CRITICAL_SECRET_EXFIL")
    THEN [decision |-> "deny", risk_level |-> "critical", risk_tags |-> analysis.risk_tags,
          explanation |-> "Critical secret exfiltration blocked"]
  ELSE IF analysis.should_block
    THEN [decision |-> "deny", risk_level |-> analysis.risk_level,
          risk_tags |-> analysis.risk_tags, explanation |-> "Request blocked"]
  ELSE IF analysis.risk_level \in {"high", "critical"}
    THEN [decision |-> IF userPresent THEN "confirm" ELSE "deny",
          risk_level |-> analysis.risk_level, risk_tags |-> analysis.risk_tags,
          explanation |-> IF userPresent THEN "High-risk request requires confirmation"
                          ELSE "High-risk request denied (user not present)"]
  ELSE IF hasTag(analysis.risk_tags, "UNTRUSTED_DOMAIN")
    THEN [decision |-> IF userPresent THEN "confirm" ELSE "deny",
          risk_level |-> analysis.risk_level, risk_tags |-> analysis.risk_tags,
          explanation |-> IF userPresent
                            THEN "Request to untrusted domain requires confirmation"
                            ELSE "Request to untrusted domain denied (user not present)"]
  ELSE [decision |-> "allow", risk_level |-> analysis.risk_level,
        risk_tags |-> analysis.risk_tags, explanation |-> NoExplanation]

\* capabilities.web3: the optional block of a CapabilityModel
hasWeb3(capabilities) == "web3" \in DOMAIN capabilities

\* chains_allowlist.includes(chain_id)
chainAllowed(capabilities, chain_id) ==
  \E i \in 1..Len(capabilities.web3.chains_allowlist) :
    capabilities.web3.chains_allowlist[i] = chain_id

\* the running (decision, riskLevel, riskTags) of a web3 handler at its start
web3Start == [decision |-> "allow", risk_level |-> "low", risk_tags |-> <<>>]

\* a chain check that lifts the risk level and tags but does not deny
web3ChainCheck_flagOnly(chain_id, capabilities, st) ==
  IF hasWeb3(capabilities) /\ ~chainAllowed(capabilities, chain_id)
    THEN [decision |-> st.decision, risk_level |-> "high",
          risk_tags |-> st.risk_tags \o <<"CHAIN_NOT_ALLOWED">>]
    ELSE st

\* "Check if chain is allowed" of handleWeb3Tx and handleWeb3Sign
web3ChainCheck(chain_id, capabilities, st) ==
  IF hasWeb3(capabilities) /\ ~chainAllowed(capabilities, chain_id)
    THEN [decision |-> "deny", risk_level |-> "high",
          risk_tags |-> st.risk_tags \o <<"CHAIN_NOT_ALLOWED">>]
    ELSE st

\* "Check origin for phishing" of handleWeb3Tx and handleWeb3Sign; a
\* rejected phishingSite call is swallowed
web3OriginCheck(data, st) ==
  IF data.has_origin /\ data.intel.phishing = "phishing"
    THEN [decision |-> "deny", risk_level |-> "critical",
          risk_tags |-> st.risk_tags \o <<"PHISHING_ORIGIN">>]
    ELSE st

\* a web3 handler that never looks at userPresent
web3UserCheck_ignored(userPresent, st) == st

\* "User not present - upgrade confirm to deny"
web3UserCheck(userPresent, st) ==
  IF ~userPresent /\ st.decision = "confirm"
    THEN [st EXCEPT !.decision = "deny"]
    ELSE st

\* the PolicyDecision a web3 handler returns
web3Decision(st, denied, confirmed, allowed) ==
  [decision |-> st.decision, risk_level |-> st.risk_level, risk_tags |-> st.risk_tags,
   explanation |-> IF st.decision = "deny" THEN denied
                   ELSE IF st.decision = "confirm" THEN confirmed ELSE allowed]

\* ActionScanner.handleWeb3Tx.  tx.intel holds what the threat-intel client
\* answers for this transaction: phishing and address in
\* {"throws", ...}, configured, and the simulation outcome.
handleWeb3Tx(tx, capabilities, userPresent) ==
  LET addressCheck(st) ==
        LET malicious == tx.intel.address \in {"malicious", "malicious_honeypot"}
            honeypot  == tx.intel.address \in {"honeypot", "malicious_honeypot"}
            st1 == IF malicious
                     THEN [decision |-> "deny", risk_level |-> "critical",
                           risk_tags |-> st.risk_tags \o <<"MALICIOUS_ADDRESS">>]
                     ELSE st
        IN IF honeypot
             THEN [st1 EXCEPT !.risk_tags = st1.risk_tags \o <<"HONEYPOT_RELATED">>,
                              !.risk_level = IF st1.risk_level # "critical" THEN "high"
                                             ELSE st1.risk_level]
             ELSE st1
      simulate(st) ==
        IF tx.intel.configured /\ st.decision # "deny" /\ tx.intel.simulation # "throws"
          THEN LET unlimited == tx.intel.simulation \in {"unlimited", "unlimited_failed"}
                   failed    == tx.intel.simulation \in {"failed", "unlimited_failed"}
                   st1 == IF unlimited
                            THEN [decision   |-> IF st.decision = "allow" THEN "confirm"
                                                 ELSE st.decision,
                                  risk_level |-> IF st.risk_level # "critical" THEN "high"
                                                 ELSE st.risk_level,
                                  risk_tags  |-> st.risk_tags \o <<"UNLIMITED_APPROVAL">>]
                            ELSE st
                   st2 == [st1 EXCEPT !.risk_tags = st1.risk_tags \o tx.intel.simulation_tags]
               IN IF failed
                    THEN [st2 EXCEPT !.risk_tags = st2.risk_tags \o <<"SIMULATION_FAILED">>,
                                     !.risk_level = IF st2.risk_level = "low" THEN "medium"
                                                    ELSE st2.risk_level]
                    ELSE st2
          ELSE st
      txPolicy(st) ==
        IF hasWeb3(capabilities) /\ capabilities.web3.tx_policy = "deny"
          THEN [st EXCEPT !.decision = "deny"]
        ELSE IF /\ hasWeb3(capabilities)
                /\ capabilities.web3.tx_policy = "confirm_high_risk"
                /\ st.risk_level # "low"
                /\ st.decision = "allow"
          THEN [st EXCEPT !.decision = "confirm"]
        ELSE st
  IN
  web3Decision(
    web3UserCheck(userPresent,
      txPolicy(simulate(addressCheck(
        web3OriginCheck(tx, web3ChainCheck(tx.chain_id, capabilities, web3Start)))))),
    "Transaction blocked due to security risks",
    "Transaction requires user confirmation",
    "Transaction allowed")

\* /value.*:.*['"]\d{30,}['"]/ on the stringified typed data
bigValuePattern(s) ==
  \E q \in 1..Len(s) :
    /\ s[q] \in {"'", "\""}
    /\ \E e \in (q + 31)..Len(s) :
         /\ s[e] \in {"'", "\""}
         /\ \A k \in (q + 1)..(e - 1) : s[k] \in DigitChars
    /\ \E c \in 1..(q - 1) :
         /\ s[c] = ":"
         /\ \A k \in (c + 1)..(q - 1) : IsDotChar(s[k])
         /\ \E v \in 1..(c - 5) :
              /\ SubSeq(s, v, v + 4) = <<"v","a","l","u","e">>
              /\ \A k \in (v + 5)..(c - 1) : IsDotChar(s[k])

\* ActionScanner.handleWeb3Sign.  sign.typed_data is JSON.stringify of the
\* typed data (empty: none given); sign.message is "absent", "clean" or
\* "critical_secret", the answer of containsCriticalSecrets for it.
handleWeb3Sign(sign, capabilities, userPresent) ==
  LET typedDataStr == sign.typed_data
      permit(st) ==
        IF /\ sign.has_typed_data
           /\ \/ includes(typedDataStr, <<"P","e","r","m","i","t">>)
              \/ includes(typedDataStr, <<"p","e","r","m","i","t">>)
          THEN [decision   |-> IF st.decision = "allow" THEN "confirm" ELSE st.decision,
                risk_level |-> IF st.risk_level = "low" THEN "medium" ELSE st.risk_level,
                risk_tags  |-> st.risk_tags \o <<"PERMIT_SIGNATURE">>]
          ELSE st
      unlimitedValue(st) ==
        IF /\ sign.has_typed_data
           /\ \/ includes(typedDataStr, <<"f","f","f","f","f","f","f","f">>)
              \/ includes(typedDataStr, <<"m","a","x">>)
              \/ bigValuePattern(typedDataStr)
          THEN [decision   |-> IF st.decision = "allow" THEN "confirm" ELSE st.decision,
                risk_level |-> IF st.risk_level # "critical" THEN "high" ELSE st.risk_level,
                risk_tags  |-> st.risk_tags \o <<"UNLIMITED_VALUE">>]
          ELSE st
      secretInMessage(st) ==
        IF sign.message = "critical_secret"
          THEN [decision |-> "deny", risk_level |-> "critical",
                risk_tags |-> st.risk_tags \o <<"SECRET_IN_SIGNATURE">>]
          ELSE st
  IN
  web3Decision(
    web3UserCheck(userPresent,
      secretInMessage(unlimitedValue(permit(
        web3OriginCheck(sign, web3ChainCheck(sign.chain_id, capabilities, web3Start)))))),
    "Signature request blocked due to security risks",
    "Signature request requires user confirmation",
    "Signature request allowed")

\* ActionScanner.decide; lookupResult: the answer of registry.lookup for
\* envelope.actor.skill
decide(lookupResult, envelope) ==
  LET capabilities == lookupResult.effective_capabilities
      action       == envelope.action
  IN
  CASE action.type = "network_request" ->
         handleNetworkRequest(action.data, capabilities, envelope.context.user_present)
    [] action.type = "exec_command" ->
         handleExecCommand(action.data, capabilities)
    [] action.type = "web3_tx" ->
         handleWeb3Tx(action.data, capabilities, envelope.context.user_present)
    [] action.type = "web3_sign" ->
         handleWeb3Sign(action.data, capabilities, envelope.context.user_present)
    [] action.type = "secret_access" ->
         handleSecretAccess(action.data, capabilities)
    [] action.type \in {"read_file", "write_file"} ->
         handleFileOperation(action.data, action.type, capabilities)
    [] OTHER ->
         [decision |-> "deny", risk_level |-> "high", risk_tags |-> <<"UNKNOWN_ACTION_TYPE">>,
          explanation |-> "Unknown action type"]

(***************************************************************************)
(* Protection levels, sensitive paths, skill trust policy                  *)
(***************************************************************************)
Undefined == "undefined"

Null == "null"

\* isSensitivePath
isSensitivePath(filePath) ==
  IF filePath = <<>> THEN FALSE
  ELSE LET normalized == replaceBackslashes(filePath) IN
       \E i \in 1..Len(SENSITIVE_PATHS) :
         \/ includes(normalized, <<"/">> \o SENSITIVE_PATHS[i])
         \/ endsWith(normalized, SENSITIVE_PATHS[i])

\* config.level || 'balanced'
levelOf(config) == IF config.level = Undefined THEN "balanced" ELSE config.level

\* a deny threshold whose strict level lets a confirm through
shouldDenyAtLevel_strictDenyOnly(decision, config) ==
  LET level == levelOf(config) IN
  IF level = "permissive"
    THEN decision.decision = "deny" /\ decision.risk_level = "critical"
  ELSE decision.decision = "deny"

\* shouldDenyAtLevel
shouldDenyAtLevel(decision, config) ==
  LET level == levelOf(config) IN
  IF level = "strict" THEN decision.decision \in {"deny", "confirm"}
  ELSE IF level = "balanced" THEN decision.decision = "deny"
  ELSE IF level = "permissive"
    THEN decision.decision = "deny" /\ decision.risk_level = "critical"
  ELSE decision.decision = "deny"

\* an ask threshold whose permissive level ignores the risk level of a confirm
shouldAskAtLevel_anyConfirm(decision, config) ==
  LET level == levelOf(config) IN
  IF level = "strict" THEN FALSE
  ELSE IF level = "permissive"
    THEN \/ (decision.decision = "deny" /\ decision.risk_level # "critical")
         \/ decision.decision = "confirm"
  ELSE decision.decision = "confirm"

\* shouldAskAtLevel
shouldAskAtLevel(decision, config) ==
  LET level == levelOf(config) IN
  IF level = "strict" THEN FALSE
  ELSE IF level = "balanced" THEN decision.decision = "confirm"
  ELSE IF level = "permissive"
    THEN \/ (decision.decision = "deny" /\ decision.risk_level # "critical")
         \/ (decision.decision = "confirm" /\ decision.risk_level \in {"high", "critical"})
  ELSE decision.decision = "confirm"

NoCapabilities == [null |-> TRUE]

NoDecision == [null |-> TRUE]

NoEnvelope == [null |-> TRUE]

\* capabilities[name] !== false; a property the object lacks is undefined
notFalse(capabilities, name) ==
  ~(name \in DOMAIN capabilities /\ capabilities[name] = FALSE)

\* isActionAllowedByCapabilities
isActionAllowedByCapabilities(actionType, capabilities) ==
  IF capabilities = NoCapabilities THEN TRUE
  ELSE CASE actionType = "exec_command"    -> notFalse(capabilities, "can_exec")
         [] actionType = "network_request" -> notFalse(capabilities, "can_network")
         [] actionType = "write_file"      -> notFalse(capabilities, "can_write")
         [] actionType = "read_file"       -> notFalse(capabilities, "can_read")
         [] actionType \in {"web3_tx", "web3_sign"} ->
                                              notFalse(capabilities, "can_web3")
         [] OTHER -> TRUE

\* a view that lets an unknown skill execute commands
UNTRUSTED_CAPABILITIES_canExec ==
  [can_exec |-> TRUE, can_network |-> FALSE, can_write |-> FALSE,
   can_read |-> TRUE, can_web3 |-> FALSE]

\* the capability view evaluateHook gives an unknown or untrusted skill
UNTRUSTED_CAPABILITIES ==
  [can_exec |-> FALSE, can_network |-> FALSE, can_write |-> FALSE,
   can_read |-> TRUE, can_web3 |-> FALSE]

\* getSkillTrustPolicy; lookupResult: the answer of registry.lookup for the
\* skill; lookupThrows: registry.lookup rejects
getSkillTrustPolicy(skillId, lookupResult, lookupThrows) ==
  IF skillId = Null
    THEN [trustLevel |-> Null, capabilities |-> NoCapabilities, isKnown |-> FALSE]
  ELSE IF lookupThrows
    THEN [trustLevel |-> Null, capabilities |-> NoCapabilities, isKnown |-> FALSE]
  ELSE LET result == lookupResult IN
       [trustLevel   |-> result.effective_trust_level,
        capabilities |-> result.effective_capabilities,
        isKnown      |-> result.record # NoRecord]

\* the entry writeAuditLog appends
auditEntry(input, decision, initiatingSkill) ==
  [tool_name       |-> input.toolName,
   decision        |-> IF decision = NoDecision THEN "allow" ELSE decision.decision,
   risk_level      |-> IF decision = NoDecision THEN "low" ELSE decision.risk_level,
   risk_tags       |-> IF decision = NoDecision THEN <<>> ELSE decision.risk_tags,
   initiating_skill |-> IF initiatingSkill = Null THEN Undefined ELSE initiatingSkill]

(***************************************************************************)
(* Hook adapters                                                           *)
(***************************************************************************)
T_Bash == <<"B","a","s","h">>

T_Write == <<"W","r","i","t","e">>

T_Edit == <<"E","d","i","t">>

T_WebFetch == <<"W","e","b","F","e","t","c","h">>

T_WebSearch == <<"W","e","b","S","e","a","r","c","h">>

T_Read == <<"R","e","a","d">>

T_exec == <<"e","x","e","c">>

T_exec_python == <<"e","x","e","c","_","p","y">>

T_write == <<"w","r","i","t","e">>

T_read == <<"r","e","a","d">>

T_web_fetch == <<"w","e","b","_","f","e","t","c","h">>

T_browser == <<"b","r","o","w","s","e","r">>

T_search == <<"s","e","a","r","c","h">>

\* TOOL_ACTION_MAP of the Claude Code adapter
CLAUDE_TOOL_ACTION_MAP ==
  << <<T_Bash, "exec_command">>, <<T_Write, "write_file">>, <<T_Edit, "write_file">>,
     <<T_WebFetch, "network_request">>, <<T_WebSearch, "network_request">> >>

\* TOOL_ACTION_MAP of the OpenClaw adapter, in insertion order
OPENCLAW_TOOL_ACTION_MAP ==
  << <<T_exec, "exec_command">>, <<T_write, "write_file">>, <<T_read, "read_file">>,
     <<T_web_fetch, "network_request">>, <<T_browser, "network_request">> >>

EV_Pre == <<"P","r","e","T","o","o","l","U","s","e">>

EV_Post == <<"P","o","s","t","T","o","o","l","U","s","e">>

\* value || fallback on strings
orElse(a, b) == IF a # <<>> THEN a ELSE b

\* value || fallback on urls
orElseUrl(a, b) == IF a.given THEN a ELSE b

\* an adapter that reports every event as a pre-tool event
parseInput_alwaysPre(adapter, raw) ==
  [toolName |-> raw.tool_name, toolInput |-> raw.tool_input, eventType |-> "pre"]

\* HookAdapter.parseInput
parseInput(adapter, raw) ==
  IF adapter = "claude-code"
    THEN [toolName  |-> raw.tool_name,
          toolInput |-> raw.tool_input,
          eventType |-> IF startsWith(raw.hook_event_name, <<"P","o","s","t">>)
                          THEN "post" ELSE "pre"]
    ELSE [toolName  |-> raw.tool_name,
          toolInput |-> raw.tool_input,
          eventType |-> "pre"]

\* HookAdapter.mapToolToActionType
mapToolToActionType(adapter, toolName) ==
  IF adapter = "claude-code"
    THEN IF \E i \in 1..Len(CLAUDE_TOOL_ACTION_MAP) : CLAUDE_TOOL_ACTION_MAP[i][1] = toolName
           THEN CLAUDE_TOOL_ACTION_MAP[
                  CHOOSE i \in 1..Len(CLAUDE_TOOL_ACTION_MAP) :
                    CLAUDE_TOOL_ACTION_MAP[i][1] = toolName][2]
           ELSE Null
  ELSE IF \E i \in 1..Len(OPENCLAW_TOOL_ACTION_MAP) : OPENCLAW_TOOL_ACTION_MAP[i][1] = toolName
    THEN OPENCLAW_TOOL_ACTION_MAP[
           CHOOSE i \in 1..Len(OPENCLAW_TOOL_ACTION_MAP) :
             OPENCLAW_TOOL_ACTION_MAP[i][1] = toolName][2]
  ELSE IF \E i \in 1..Len(OPENCLAW_TOOL_ACTION_MAP) :
            startsWith(toolName, OPENCLAW_TOOL_ACTION_MAP[i][1])
    THEN OPENCLAW_TOOL_ACTION_MAP[
           CHOOSE i \in 1..Len(OPENCLAW_TOOL_ACTION_MAP) :
             /\ startsWith(toolName, OPENCLAW_TOOL_ACTION_MAP[i][1])
             /\ \A j \in 1..(i - 1) : ~startsWith(toolName, OPENCLAW_TOOL_ACTION_MAP[j][1])][2]
  ELSE Null

\* the session actor of an adapter when no skill initiated the call
sessionSource(adapter) == IF adapter = "claude-code" THEN "claude-code" ELSE "openclaw"

sessionId(adapter) ==
  IF adapter = "claude-code" THEN "claude-code-session" ELSE "openclaw-session"

\* HookAdapter.buildEnvelope
buildEnvelope(adapter, input, initiatingSkill) ==
  LET actionType == mapToolToActionType(adapter, input.toolName)
      actor == [skill |-> IF initiatingSkill # Null
                            THEN skillIdentity(initiatingSkill, initiatingSkill)
                            ELSE skillIdentity(sessionId(adapter), sessionSource(adapter))]
      context == [user_present |-> TRUE,
                  initiating_skill |-> IF initiatingSkill # Null THEN initiatingSkill
                                       ELSE Undefined]
      t == input.toolInput
      actionData ==
        CASE actionType = "exec_command" ->
               [command |-> t.command, has_args |-> TRUE, args |-> <<>>, env |-> <<>>]
          [] actionType = "write_file" ->
               [path |-> IF adapter = "claude-code" THEN t.file_path
                         ELSE orElse(t.path, t.file_path)]
          [] actionType = "read_file" ->
               [path |-> orElse(t.path, t.file_path)]
          [] actionType = "network_request" ->
               IF adapter = "claude-code"
                 THEN [method |-> "GET", url |-> orElseUrl(t.url, t.query)]
                 ELSE [method |-> "GET", url |-> t.url]
  IN
  IF actionType = Null THEN NoEnvelope
  ELSE [actor |-> actor, action |-> [type |-> actionType, data |-> actionData],
        context |-> context]

(***************************************************************************)
(* evaluateHook                                                            *)
(***************************************************************************)
NoTags == <<Undefined>>

allowOnly ==
  [decision |-> "allow", reason |-> Undefined, riskLevel |-> Undefined,
   riskTags |-> NoTags, initiatingSkill |-> Undefined]

\* a fast check that asks in permissive mode whoever initiated the write
sensitivePathVerdict_anyInitiator(config, initiatingSkill) ==
  IF config.level = "permissive" THEN "ask" ELSE "deny"

\* a catch block that fails closed
engineErrorOutput_failClosed ==
  [decision |-> "deny", reason |-> "engine error", riskLevel |-> "low",
   riskTags |-> <<"ENGINE_ERROR">>, initiatingSkill |-> Undefined]

\* the verdict of the sensitive-path fast check: in permissive mode a
\* user-initiated write is asked about, every other one is denied
sensitivePathVerdict(config, initiatingSkill) ==
  IF config.level = "permissive" /\ initiatingSkill = Null THEN "ask" ELSE "deny"

\* what the catch block of evaluateHook returns: fail open
engineErrorOutput == allowOnly

\* env.initiatingSkill: what adapter.inferInitiatingSkill resolves to;
\* env.lookupResult: what registry.lookup answers for the actor of the
\* envelope, which is the initiating skill when there is one;
\* env.decideThrows: actionScanner.decide rejects; env.lookupThrows: the
\* registry lookup of getSkillTrustPolicy rejects
evaluateHook(adapter, rawInput, config, env) ==
  LET initiatingSkill == env.initiatingSkill
      \* after the scanner and the trust policy have answered
      scanned(input, envelope, decision, policy) ==
        LET arbitrated ==
              IF shouldDenyAtLevel(decision, config)
                THEN [decision |-> "deny",
                      reason |-> IF decision.explanation # "" THEN decision.explanation
                                 ELSE "Action blocked",
                      riskLevel |-> decision.risk_level, riskTags |-> decision.risk_tags,
                      initiatingSkill |-> initiatingSkill]
              ELSE IF shouldAskAtLevel(decision, config)
                THEN [decision |-> "ask",
                      reason |-> IF decision.explanation # "" THEN decision.explanation
                                 ELSE "Action requires confirmation",
                      riskLevel |-> decision.risk_level, riskTags |-> decision.risk_tags,
                      initiatingSkill |-> initiatingSkill]
              ELSE [allowOnly EXCEPT !.initiatingSkill = initiatingSkill]
        IN
        IF /\ initiatingSkill # Null
           /\ (~policy.isKnown \/ policy.trustLevel = "untrusted")
           /\ ~isActionAllowedByCapabilities(envelope.action.type, UNTRUSTED_CAPABILITIES)
          THEN [output    |-> [decision |-> "ask",
                               reason |-> "untrusted skill attempted action",
                               riskLevel |-> "high", riskTags |-> <<"UNTRUSTED_SKILL">>,
                               initiatingSkill |-> initiatingSkill],
                audit     |-> <<auditEntry(input,
                                  [decision |-> "deny", risk_level |-> "high",
                                   risk_tags |-> <<"UNTRUSTED_SKILL">> \o decision.risk_tags],
                                  initiatingSkill)>>,
                consulted |-> {"actionScanner", "registry"}]
        ELSE IF /\ initiatingSkill # Null
                /\ policy.isKnown
                /\ policy.capabilities # NoCapabilities
                /\ ~isActionAllowedByCapabilities(envelope.action.type, policy.capabilities)
          THEN [output    |-> [decision |-> "deny",
                               reason |-> "skill not allowed per its trust policy",
                               riskLevel |-> "high", riskTags |-> <<"CAPABILITY_EXCEEDED">>,
                               initiatingSkill |-> initiatingSkill],
                audit     |-> <<auditEntry(input,
                                  [decision |-> "deny", risk_level |-> "high",
                                   risk_tags |-> <<"CAPABILITY_EXCEEDED">> \o decision.risk_tags],
                                  initiatingSkill)>>,
                consulted |-> {"actionScanner", "registry"}]
        ELSE [output    |-> arbitrated,
              audit     |-> <<auditEntry(input, decision, initiatingSkill)>>,
              consulted |-> {"actionScanner", "registry"}]
      \* after the adapter has built the envelope
      built(input, envelope) ==
        IF envelope = NoEnvelope
          THEN [output |-> allowOnly, audit |-> <<>>, consulted |-> {}]
        ELSE IF /\ mapToolToActionType(adapter, input.toolName) = "write_file"
                /\ isSensitivePath(orElse(input.toolInput.file_path, input.toolInput.path))
          THEN [output    |-> [decision |-> sensitivePathVerdict(config, initiatingSkill),
                               reason |-> "blocked write to sensitive path",
                               riskLevel |-> "critical", riskTags |-> <<"SENSITIVE_PATH">>,
                               initiatingSkill |-> initiatingSkill],
                audit     |-> <<auditEntry(input,
                                  [decision |-> "deny", risk_level |-> "critical",
                                   risk_tags |-> <<"SENSITIVE_PATH">>], initiatingSkill)>>,
                consulted |-> {}]
        ELSE IF env.decideThrows
          THEN [output    |-> engineErrorOutput,
                audit     |-> <<auditEntry(input,
                                  [decision |-> "error", risk_level |-> "low",
                                   risk_tags |-> <<"ENGINE_ERROR">>], initiatingSkill)>>,
                consulted |-> {"actionScanner", "registry"}]
        ELSE scanned(input, envelope, decide(env.lookupResult, envelope),
                     getSkillTrustPolicy(initiatingSkill, env.lookupResult,
                                         env.lookupThrows))
      \* after the adapter has parsed the raw event
      parsed(input) ==
        IF input.eventType = "post"
          THEN [output    |-> allowOnly,
                audit     |-> <<auditEntry(input, NoDecision, initiatingSkill)>>,
                consulted |-> {}]
          ELSE built(input, buildEnvelope(adapter, input, initiatingSkill))
  IN
  parsed(parseInput(adapter, rawInput))

(***************************************************************************)
(* Inputs of the model                                                     *)
(***************************************************************************)
S_echo == <<"e","c","h","o"," ","h","i">>

S_rm_rf == <<"r","m"," ","-","r","f"," ","/">>

S_fork_bomb == <<":","(",")","{"," ",":","|",":","&"," ","}",";",":">>

S_sudo_rm == <<"s","u","d","o"," ","r","m"," ","/","f">>

S_printenv == <<"p","r","i","n","t","e","n","v">>

S_foo == <<"f","o","o">>

\* commands of hook events: safe, dangerous, fork bomb, system, sensitive, unknown
HookCommands == {S_echo, S_rm_rf, S_fork_bomb, S_sudo_rm, S_printenv, S_foo}

P_env == <<"/","p","/",".","e","n","v">>

P_env_windows == <<"C",":","\\","p","\\",".","e","n","v">>

P_txt == <<"/","p","/","a",".","t","x","t">>

P_other == <<"/","e","t","c","/","h","o","s","t","s">>

\* file paths of hook events: absent, sensitive, plain
HookPaths == {<<>>, P_env, P_txt}

\* the field is absent or empty
NoUrl ==
  [given |-> FALSE,
   answer |-> [risk_level |-> "high", should_block |-> TRUE, risk_tags |-> <<>>]]

Urls == {[given |-> TRUE, answer |-> a] : a \in NetAnalyses}

\* the url a hook event carries: present, or absent (the detector is then
\* asked about the empty string)
HookUrls == Urls \cup {[given |-> FALSE, answer |-> a] : a \in NetAnalyses}

emptyToolInput ==
  [command |-> <<>>, file_path |-> <<>>, path |-> <<>>, url |-> NoUrl, query |-> NoUrl]

\* tool inputs a tool of the given action type is called with
ToolInputsFor(actionType) ==
  CASE actionType = "exec_command" ->
         {[emptyToolInput EXCEPT !.command = c] : c \in HookCommands}
    [] actionType \in {"write_file", "read_file"} ->
         {[emptyToolInput EXCEPT !.file_path = f, !.path = p] : f \in HookPaths, p \in HookPaths}
    [] actionType = "network_request" ->
         {[emptyToolInput EXCEPT !.url = u,
                                 !.query = [given |-> FALSE, answer |-> u.answer]]
            : u \in HookUrls}
    [] OTHER ->
         {[emptyToolInput EXCEPT !.file_path = f] : f \in {P_env, P_txt}}

ClaudeTools == {T_Bash, T_Write, T_Edit, T_WebFetch, T_Read}

OpenClawTools == {T_exec, T_exec_python, T_write, T_read, T_web_fetch, T_search}

Adapters == {"claude-code", "openclaw"}

\* raw hook events of an adapter
RawInputs(adapter) ==
  IF adapter = "claude-code"
    THEN UNION { { [hook_event_name |-> e, tool_name |-> t, tool_input |-> i]
                     : e \in {EV_Pre, EV_Post},
                       i \in ToolInputsFor(mapToolToActionType(adapter, t)) }
                 : t \in ClaudeTools }
    ELSE UNION { { [hook_event_name |-> <<>>, tool_name |-> t, tool_input |-> i]
                     : i \in ToolInputsFor(mapToolToActionType(adapter, t)) }
                 : t \in OpenClawTools }

ConfigLevels == {"strict", "balanced", "permissive", Undefined}

Levels == {"strict", "balanced", "permissive"}

\* what inferInitiatingSkill resolves to: no skill, or a skill id
InitiatingSkills == {Null, "skillA"}

\* the answer of a lookup nobody reads
UnreadLookup ==
  [record |-> NoRecord, effective_trust_level |-> "untrusted",
   effective_capabilities |-> CAPABILITY_NONE]

\* a lookup can only reject where one is made: at most one of the two fails,
\* and getSkillTrustPolicy runs only for an attributed skill; when decide
\* rejects no lookup answer is read
HookEnvs ==
  { e \in [initiatingSkill : InitiatingSkills, lookupResult : LookupResults,
           decideThrows : BOOLEAN, lookupThrows : BOOLEAN] :
      /\ ~(e.decideThrows /\ e.lookupThrows)
      /\ (e.lookupThrows => e.initiatingSkill # Null)
      /\ (e.decideThrows => e.lookupResult = UnreadLookup) }

(***************************************************************************)
(* State                                                                   *)
(***************************************************************************)
VARIABLES
  records,     \* RegistryStorage: data.records
  pc,          \* "idle", "hook_done", "scan_done", "deny_done" or "ask_done"
  hookCall,    \* the arguments of the evaluateHook call that last ran
  hookResult,  \* its output, the audit entries it wrote, what it consulted
  scanCall,    \* the envelope of the ActionScanner.decide call that last ran
  scanResult,  \* its PolicyDecision
  levelCall,   \* the decision and config the level thresholds were last asked about
  levelResult, \* what shouldDenyAtLevel and shouldAskAtLevel answered
  file,        \* the registry file: whether it exists, and the records in it
  data,        \* RegistryStorage.data: null, or a RegistryData object
  defaultRecords, \* the array DEFAULT_REGISTRY.records of the module
  calls,       \* the RegistryStorage call each caller is in, and where it waits
  pluginScanCache,  \* the OpenClaw plugin module: plugin id -> cached risk level
  toolToPluginMap,  \* the OpenClaw plugin module: tool name -> plugin id
  runs,        \* each registerOpenClawPlugin call and the scanAllPlugins it started
  toolCall,    \* the before_tool_call event last handled, and what the handler returned
  scriptResult \* what the guard-hook script did with the event of hookCall

vars == <<records, pc, hookCall, hookResult, scanCall, scanResult, levelCall, levelResult,
          file, data, defaultRecords, calls,
          pluginScanCache, toolToPluginMap, runs, toolCall, scriptResult>>

\* the state of the OpenClaw plugin module
pluginVars == <<pluginScanCache, toolToPluginMap, runs, toolCall>>

\* the state of one RegistryStorage and its file
storageVars == <<file, data, defaultRecords, calls>>

\* the state of the engine, the scanner and the loaded registry
engineVars == <<records, pc, hookCall, hookResult, scanCall, scanResult, levelCall, levelResult,
                scriptResult>>

(***************************************************************************)
(* RegistryStorage: the data object, the file, the calls in progress       *)
(***************************************************************************)
\* callers that can have a RegistryStorage call in progress at the same time
Callers == {1, 2}

StorageSources == {"skillA", "skillB"}

\* the trust records the storage is called with
StorageRecord(source, status) ==
  [record_key |-> generateRecordKey(skillIdentity(source, source)),
   skill |-> skillIdentity(source, source), trust_level |-> "restricted",
   capabilities |-> CAPABILITY_NONE, status |-> status]

StorageRecords ==
  {StorageRecord("skillA", "active"), StorageRecord("skillA", "revoked"),
   StorageRecord("skillB", "active")}

StorageKeys == {r.record_key : r \in StorageRecords}

\* the registry file does not exist
NoFile == [exists |-> FALSE, records |-> <<>>]

\* `private data: RegistryData | null = null`
NoData == [loaded |-> FALSE, shared |-> FALSE, records |-> <<>>]

\* `{ ...DEFAULT_REGISTRY }`: a new object whose records field is the array
\* of DEFAULT_REGISTRY itself
defaultRegistryCopy == [loaded |-> TRUE, shared |-> TRUE, records |-> <<>>]

\* JSON.parse of a registry text: a new object with an array of its own
parsedRegistry(recs) == [loaded |-> TRUE, shared |-> FALSE, records |-> recs]

\* d.records, read through the array the object refers to
dataRecords(d, def) == IF d.shared THEN def ELSE d.records

\* a change made inside the array d.records refers to (push, element
\* assignment, a field of one of its records)
mutateRecords(d, def, recs) ==
  [data |-> IF d.shared THEN d ELSE [d EXCEPT !.records = recs],
   defaultRecords |-> IF d.shared THEN recs ELSE def]

\* `data.records = ...`: the object gets a new array
assignRecords(d, def, recs) ==
  [data |-> parsedRegistry(recs), defaultRecords |-> def]

\* data.records.filter((r) => r.record_key !== recordKey)
removeRecords(recs, recordKey) ==
  LET kept(r) == r.record_key # recordKey IN SelectSeq(recs, kept)

\* Array.from(recordMap.values()) after recordMap.set of every record in
\* order: a key keeps the place of its first record and the value of its last
RECURSIVE recordMapValues(_)
recordMapValues(recs) ==
  IF recs = <<>> THEN <<>>
  ELSE upsertRecords(recordMapValues(SubSeq(recs, 1, Len(recs) - 1)), recs[Len(recs)])

\* no call in progress, and none made yet
IdleCall ==
  [pc |-> "idle", op |-> "none", arg |-> <<>>, before |-> <<>>, snapshot |-> <<>>,
   outcome |-> "none"]

\* the texts import is called with: registries with one record, with two
\* records, and with the same record_key twice
ImportPayloads ==
  { <<StorageRecord("skillA", "active")>>,
    <<StorageRecord("skillB", "active"), StorageRecord("skillA", "revoked")>>,
    <<StorageRecord("skillA", "active"), StorageRecord("skillA", "revoked")>> }

\* the synchronous part of an operation between the end of its load and its
\* `await this.save()` or its return
afterLoad(call, d, def) ==
  LET recs == dataRecords(d, def) IN
  CASE call.op = "upsert" ->
         [mem |-> mutateRecords(d, def, upsertRecords(recs, call.arg)),
          saves |-> TRUE, outcome |-> "ok"]
    [] call.op = "remove" ->
         [mem |-> assignRecords(d, def, removeRecords(recs, call.arg)),
          saves |-> Len(removeRecords(recs, call.arg)) < Len(recs),
          outcome |-> IF Len(removeRecords(recs, call.arg)) < Len(recs)
                        THEN "true" ELSE "false"]
    [] call.op = "updateStatus" ->
         IF findByKey(recs, call.arg.recordKey) = NoRecord
           THEN [mem |-> [data |-> d, defaultRecords |-> def],
                 saves |-> FALSE, outcome |-> "false"]
           ELSE [mem |-> mutateRecords(d, def,
                           upsertRecords(recs,
                             [findByKey(recs, call.arg.recordKey)
                                EXCEPT !.status = call.arg.status])),
                 saves |-> TRUE, outcome |-> "true"]
    [] call.op = "import" /\ call.arg.merge ->
         [mem |-> assignRecords(d, def, recordMapValues(recs \o call.arg.records)),
          saves |-> TRUE, outcome |-> "ok"]
    [] call.op = "import" /\ ~call.arg.merge ->
         [mem |-> [data |-> parsedRegistry(call.arg.records), defaultRecords |-> def],
          saves |-> TRUE, outcome |-> "ok"]
    [] call.op = "clear" ->
         [mem |-> [data |-> defaultRegistryCopy, defaultRecords |-> def],
          saves |-> TRUE, outcome |-> "ok"]

NoCall == [null |-> TRUE]

(***************************************************************************)
(* The OpenClaw plugin module: the plugins, the two maps, the registrations *)
(***************************************************************************)
\* registry.plugins without AgentGuard itself: loaded and enabled plugins
LoadedPlugins == <<"p1", "p2", "p3", "p4">>

PluginIds == {LoadedPlugins[k] : k \in 1..Len(LoadedPlugins)}

\* plugin.toolNames: p1 and p2 register the same tool name, p4 no tool
toolNames(p) ==
  CASE p = "p1" -> {T_exec}
    [] p = "p2" -> {T_exec}
    [] p = "p3" -> {T_search}
    [] OTHER -> {}

PluginTools == UNION {toolNames(p) : p \in PluginIds}

\* Map.get of a key the map does not have
Absent == "absent"

\* `const CONCURRENCY = 3` of scanAllPlugins
CONCURRENCY == 3

\* the registerOpenClawPlugin calls made in the process
Registrations == {1, 2}

\* the two sources of the plugin module: one that only scans, one that also
\* attests what it scanned
Builds == {"scan_only", "registering"}

\* options.skipAutoScan: not given, true or false
SkipAutoScanOptions == {"undefined", "true", "false"}

\* the test registerOpenClawPlugin puts before the registration-time scan:
\* `options.skipAutoScan === false` in one source, `!options.skipAutoScan`
\* in the other
autoScanEnabled(build, skipAutoScan) ==
  IF build = "scan_only" THEN skipAutoScan = "false" ELSE skipAutoScan # "true"

\* whether registerOpenClawPlugin installs the session_start handler: under
\* the same test in one source, always in the other
sessionScanInstalled(build, skipAutoScan) ==
  IF build = "scan_only" THEN skipAutoScan = "false" ELSE TRUE

\* a scanAndRegisterPlugin call that has not been made
IdleTask == [at |-> "idle", risk |-> "none"]

\* a registerOpenClawPlugin call that has not been made
NoRun ==
  [stage |-> "none", build |-> "none", skipAutoScan |-> "undefined", i |-> 0,
   tasks |-> [p \in PluginIds |-> IdleTask]]

Init ==
  /\ records = <<>>
  /\ pc = "idle"
  /\ hookCall = NoCall
  /\ hookResult = NoCall
  /\ scanCall = NoCall
  /\ scanResult = NoCall
  /\ levelCall = NoCall
  /\ levelResult = NoCall
  /\ file = NoFile
  /\ data = NoData
  /\ defaultRecords = <<>>
  /\ calls = [p \in Callers |-> IdleCall]
  /\ pluginScanCache = [p \in PluginIds |-> Absent]
  /\ toolToPluginMap = [t \in PluginTools |-> Absent]
  /\ runs = [r \in Registrations |-> NoRun]
  /\ toolCall = NoCall
  /\ scriptResult = NoCall

\* RegistryStorage.upsert
upsert(record) ==
  /\ pc = "idle"
  /\ records' = upsertRecords(records, record)
  /\ UNCHANGED <<pc, hookCall, hookResult, scanCall, scanResult, levelCall, levelResult>>
  /\ UNCHANGED <<storageVars, pluginVars, scriptResult>>

\* RegistryStorage.updateStatus
updateStatus(recordKey, status) ==
  /\ pc = "idle"
  /\ findByKey(records, recordKey) # NoRecord
  /\ records' = upsertRecords(records,
                  [findByKey(records, recordKey) EXCEPT !.status = status])
  /\ UNCHANGED <<pc, hookCall, hookResult, scanCall, scanResult, levelCall, levelResult>>
  /\ UNCHANGED <<storageVars, pluginVars, scriptResult>>

\* one evaluateHook call, from its arguments to its returned HookOutput
EvaluateHook(adapter, rawInput, config, env) ==
  /\ pc = "idle"
  /\ hookCall' = [adapter |-> adapter, rawInput |-> rawInput, config |-> config, env |-> env]
  /\ hookResult' = evaluateHook(adapter, rawInput, config, env)
  /\ pc' = "hook_done"
  /\ UNCHANGED <<records, scanCall, scanResult, levelCall, levelResult>>
  /\ UNCHANGED <<storageVars, pluginVars, scriptResult>>

\* the caller has taken the result
Return ==
  /\ pc \in {"hook_done", "scan_done", "ask_done", "script_done"}
  /\ pc' = "idle"
  /\ hookCall' = NoCall
  /\ hookResult' = NoCall
  /\ scanCall' = NoCall
  /\ scanResult' = NoCall
  /\ levelCall' = NoCall
  /\ levelResult' = NoCall
  /\ scriptResult' = NoCall
  /\ UNCHANGED records
  /\ UNCHANGED <<storageVars, pluginVars>>

\* calls start when no call is running
Next ==
  \/ /\ pc = "idle"
     /\ \E a \in Adapters : \E raw \in RawInputs(a), l \in ConfigLevels, env \in HookEnvs :
          EvaluateHook(a, raw, [level |-> l], env)
  \/ Return

Spec == Init /\ [][Next]_vars

(***************************************************************************)
(* The guard-hook script: the hook of Claude Code as one process           *)
(***************************************************************************)
T_mcp_fetch == <<"m","c","p","_","_","f","e","t","c","h">>

EV_PostFailure ==
  <<"P","o","s","t","T","o","o","l","U","s","e","F","a","i","l","u","r","e">>

\* an event name that starts with Post and is not an event of a tool
EV_PostCompact == <<"P","o","s","t","C","o","m","p","a","c","t">>

\* stdin that JSON.parse rejects, or that does not arrive in time
Unparseable == [unparseable |-> TRUE]

\* process.exit(0) with nothing written to stdout
exitAllow(audit) ==
  [verdict |-> "allow", exit |-> 0, stdout |-> <<>>, stderr |-> <<>>, audit |-> audit]

\* an ask that is reported like a deny
exitAsk_asDeny(reason, audit) ==
  [verdict |-> "ask", exit |-> 2, stdout |-> <<>>, stderr |-> <<reason>>, audit |-> audit]

\* console.log of the hookSpecificOutput object, then process.exit(0)
exitAsk(reason, audit) ==
  [verdict |-> "ask", exit |-> 0,
   stdout |-> <<[hookEventName |-> EV_Pre, permissionDecision |-> "ask",
                 permissionDecisionReason |-> reason]>>,
   stderr |-> <<>>, audit |-> audit]

\* process.stderr.write(reason), then process.exit(2)
exitDeny(reason, audit) ==
  [verdict |-> "deny", exit |-> 2, stdout |-> <<>>, stderr |-> <<reason>>, audit |-> audit]

\* buildEnvelope of the script: the tools of the adapter's map, and any
\* mcp__ tool whose input has a url
guardHookEnvelope(input, initiatingSkill) ==
  LET toolName == input.tool_name
      t == input.tool_input
      actor == [skill |-> IF initiatingSkill # Null
                            THEN skillIdentity(initiatingSkill, initiatingSkill)
                            ELSE skillIdentity("claude-code-session", "claude-code")]
      context == [user_present |-> TRUE,
                  initiating_skill |-> IF initiatingSkill # Null THEN initiatingSkill
                                       ELSE Undefined]
      envelope(type, actionData) ==
        [actor |-> actor, action |-> [type |-> type, data |-> actionData],
         context |-> context]
  IN
  IF toolName = T_Bash
    THEN envelope("exec_command",
                  [command |-> t.command, has_args |-> TRUE, args |-> <<>>, env |-> <<>>])
  ELSE IF toolName \in {T_Write, T_Edit}
    THEN envelope("write_file", [path |-> t.file_path])
  ELSE IF toolName \in {T_WebFetch, T_WebSearch}
    THEN envelope("network_request", [method |-> "GET", url |-> orElseUrl(t.url, t.query)])
  ELSE IF startsWith(toolName, <<"m","c","p","_","_">>) /\ t.url.given
    THEN envelope("network_request", [method |-> "GET", url |-> t.url])
  ELSE NoEnvelope

\* the script from the import of the engine to process.exit; engine: whether
\* the import of the engine succeeds; env as for evaluateHook
guardHook(input, config, env, engine) ==
  LET initiatingSkill == env.initiatingSkill
      audited == [toolName |-> input.tool_name]
      \* after actionScanner.decide and getSkillTrustPolicy have answered
      scanned(envelope, decision, policy) ==
        IF /\ initiatingSkill # Null
           /\ (~policy.isKnown \/ policy.trustLevel = "untrusted")
           /\ ~isActionAllowedByCapabilities(envelope.action.type, UNTRUSTED_CAPABILITIES)
          THEN exitAsk("GoPlus AgentGuard: untrusted skill attempted action",
                 <<auditEntry(audited,
                     [decision |-> "deny", risk_level |-> "high",
                      risk_tags |-> <<"UNTRUSTED_SKILL">> \o decision.risk_tags],
                     initiatingSkill)>>)
        ELSE IF /\ initiatingSkill # Null
                /\ policy.isKnown
                /\ policy.capabilities # NoCapabilities
                /\ ~isActionAllowedByCapabilities(envelope.action.type, policy.capabilities)
          THEN exitDeny("GoPlus AgentGuard: skill is not allowed per its trust policy",
                 <<auditEntry(audited,
                     [decision |-> "deny", risk_level |-> "high",
                      risk_tags |-> <<"CAPABILITY_EXCEEDED">> \o decision.risk_tags],
                     initiatingSkill)>>)
        ELSE IF shouldDenyAtLevel(decision, config)
          THEN exitDeny("GoPlus AgentGuard: Action blocked",
                        <<auditEntry(audited, decision, initiatingSkill)>>)
        ELSE IF shouldAskAtLevel(decision, config)
          THEN exitAsk("GoPlus AgentGuard: Action requires confirmation",
                       <<auditEntry(audited, decision, initiatingSkill)>>)
        ELSE exitAllow(<<auditEntry(audited, decision, initiatingSkill)>>)
      \* after buildEnvelope
      built(envelope) ==
        IF envelope = NoEnvelope THEN exitAllow(<<>>)
        ELSE IF /\ input.tool_name \in {T_Write, T_Edit}
                /\ isSensitivePath(input.tool_input.file_path)
          THEN LET written == <<auditEntry(audited,
                                  [decision |-> "deny", risk_level |-> "critical",
                                   risk_tags |-> <<"SENSITIVE_PATH">>], initiatingSkill)>>
               IN IF config.level = "permissive" /\ initiatingSkill = Null
                    THEN exitAsk("GoPlus AgentGuard: blocked write to sensitive path", written)
                    ELSE exitDeny("GoPlus AgentGuard: blocked write to sensitive path", written)
        ELSE IF env.decideThrows
          THEN exitAllow(<<auditEntry(audited,
                             [decision |-> "error", risk_level |-> "low",
                              risk_tags |-> <<"ENGINE_ERROR">>], initiatingSkill)>>)
        ELSE scanned(envelope, decide(env.lookupResult, envelope),
                     getSkillTrustPolicy(initiatingSkill, env.lookupResult,
                                         env.lookupThrows))
  IN
  IF engine = "unavailable"
    THEN [exitAllow(<<>>) EXCEPT
            !.stderr = <<"GoPlus AgentGuard: unable to load engine, allowing action">>]
  ELSE IF input = Unparseable THEN exitAllow(<<>>)
  ELSE IF input.hook_event_name \in {EV_Post, EV_PostFailure}
    THEN exitAllow(<<auditEntry(audited, NoDecision, initiatingSkill)>>)
  ELSE built(guardHookEnvelope(input, initiatingSkill))

\* the hook inputs of Claude Code: the tools of the adapter's map, a tool
\* outside it, and an mcp__ tool with and without a url; tool events and an
\* event that is none
GuardHookInputs ==
  UNION { { [hook_event_name |-> e, tool_name |-> t, tool_input |-> i]
              : e \in {EV_Pre, EV_Post, EV_PostFailure, EV_PostCompact},
                i \in ToolInputsFor(mapToolToActionType("claude-code", t)) }
          : t \in ClaudeTools }
  \cup { [hook_event_name |-> e, tool_name |-> T_mcp_fetch,
          tool_input |-> [emptyToolInput EXCEPT !.url = u]]
           : e \in {EV_Pre, EV_Post}, u \in HookUrls }

\* one run of the script, and evaluateHook with the Claude Code adapter on
\* the same event, configuration and registry answers
GuardHook(input, config, env, engine) ==
  /\ pc = "idle"
  /\ hookCall' = [adapter |-> "claude-code", rawInput |-> input, config |-> config,
                  env |-> env]
  /\ hookResult' = IF input = Unparseable THEN NoCall
                   ELSE evaluateHook("claude-code", input, config, env)
  /\ scriptResult' = [engine |-> engine, run |-> guardHook(input, config, env, engine)]
  /\ pc' = "script_done"
  /\ UNCHANGED <<records, scanCall, scanResult, levelCall, levelResult>>
  /\ UNCHANGED <<storageVars, pluginVars>>

\* an environment without initiating skill and without failure
PlainEnv ==
  [initiatingSkill |-> Null, lookupResult |-> UnreadLookup,
   decideThrows |-> FALSE, lookupThrows |-> FALSE]

NextGuardHook ==
  \/ /\ pc = "idle"
     /\ \E input \in GuardHookInputs, l \in ConfigLevels, env \in HookEnvs :
          GuardHook(input, [level |-> l], env, "loaded")
  \/ /\ pc = "idle"
     /\ \E input \in GuardHookInputs \cup {Unparseable}, engine \in {"loaded", "unavailable"} :
          GuardHook(input, [level |-> "balanced"], PlainEnv, engine)
  \/ Return

SpecGuardHook == Init /\ [][NextGuardHook]_vars

(***************************************************************************)
(* The Action Scanner on its own: ActionScanner.decide called directly     *)
(***************************************************************************)
F_ls == <<"l","s">>

F_la == <<" ","-","l","a">>

F_git_status == <<"g","i","t"," ","s","t","a","t","u","s">>

F_semi_id == <<" ",";"," ","i","d">>

F_RM_RF == <<"R","M"," ","-","R","F"," ","/">>

F_env == <<" ","e","n","v">>

K_my_token == <<"m","y","_","t","o","k","e","n">>

CommandFragments ==
  {F_ls, F_la, F_git_status, F_semi_id, F_RM_RF, F_env, S_fork_bomb}

\* concatenations of at most n fragments
RECURSIVE CommandsOf(_)
CommandsOf(n) ==
  IF n = 0 THEN {<<>>}
  ELSE CommandsOf(n - 1) \cup {c \o f : c \in CommandsOf(n - 1), f \in CommandFragments}

ScanCommands == CommandsOf(MaxParts)

\* args absent, empty, harmless, dangerous; env keys only without args
ExecData ==
  {[command |-> c, has_args |-> FALSE, args |-> <<>>, env |-> e]
     : c \in ScanCommands, e \in {<<>>, <<K_my_token>>}}
  \cup
  {[command |-> c, has_args |-> TRUE, args |-> a, env |-> <<>>]
     : c \in ScanCommands, a \in {<<>>, <<F_la>>, <<S_rm_rf>>}}

ScanPaths == {P_env, P_env_windows, P_txt, P_other}

ScanActions ==
  {[type |-> "exec_command", data |-> d] : d \in ExecData}
  \cup {[type |-> t, data |-> [path |-> p]] : t \in {"read_file", "write_file"}, p \in ScanPaths}
  \cup {[type |-> "secret_access", data |-> [secret_name |-> K_my_token]]}
  \cup {a \in {[type |-> "network_request",
                  data |-> [method |-> "GET", url |-> u, body_priority |-> p]]
                   : u \in Urls, p \in SecretPriorities} : bodyScanAgrees(a.data)}
  \cup {[type |-> "unknown_action", data |-> [path |-> <<>>]]}

\* the actor decide is called for; what the registry answers about it is an
\* input of the call
ScanActors == {skillIdentity("skillA", "skillA")}

\* user_present is read for network requests only
ScanEnvelopes ==
  {e \in [actor : {[skill |-> s] : s \in ScanActors}, action : ScanActions,
          context : {[user_present |-> u, initiating_skill |-> Undefined] : u \in BOOLEAN}] :
     e.action.type # "network_request" => e.context.user_present}

\* chain ids a transaction or signature names
ChainIds == {1, 56}

\* capabilities with a web3 block allowing chain 1, one per tx_policy
Web3CapabilitySets ==
  {[network_allowlist |-> <<>>, filesystem_allowlist |-> <<>>, exec |-> "deny",
    secrets_allowlist |-> <<>>,
    web3 |-> [chains_allowlist |-> <<1>>, rpc_allowlist |-> <<>>, tx_policy |-> p]]
     : p \in {"allow", "confirm_high_risk", "deny"}}

\* lookup answers for the actor of a web3 action: a record with a web3
\* block, or no usable record (the none preset, which has no web3 block)
Web3LookupResults ==
  {[record |-> FoundRecord, effective_trust_level |-> "trusted",
    effective_capabilities |-> c] : c \in Web3CapabilitySets}
  \cup {UnreadLookup}

\* what the threat-intel client answers during one handleWeb3Tx; the
\* simulation is only asked when the client is configured
TxIntel ==
  {i \in [configured : BOOLEAN,
          phishing : {"throws", "clean", "phishing"},
          address : {"throws", "absent", "clean", "malicious", "honeypot",
                     "malicious_honeypot"},
          simulation : {"throws", "ok", "unlimited", "failed", "unlimited_failed"},
          simulation_tags : {<<>>, <<"PROVIDER_RISK">>}] :
     /\ (~i.configured => i.simulation = "throws")
     /\ (i.simulation \in {"throws", "failed", "unlimited_failed"} => i.simulation_tags = <<>>)}

\* Web3TxData; without an origin the phishing endpoint is not asked
Web3Txs ==
  {t \in [chain_id : ChainIds, has_origin : BOOLEAN, intel : TxIntel] :
     ~t.has_origin => t.intel.phishing = "clean"}

TD_plain == <<"{","\"","a","\"",":","\"","1","\"","}">>

TD_permit == <<"{","\"","t","\"",":","\"","P","e","r","m","i","t","\"","}">>

TD_max == <<"{","\"","a","\"",":","\"","m","a","x","\"","}">>

\* {"value":"<n digits>"}
TD_value(n) ==
  <<"{","\"","v","a","l","u","e","\"",":","\"">> \o [i \in 1..n |-> "1"] \o <<"\"","}">>

\* Web3SignData
Web3Signs ==
  {g \in [chain_id : ChainIds, has_origin : BOOLEAN,
          intel : [phishing : {"throws", "clean", "phishing"}],
          has_typed_data : BOOLEAN,
          typed_data : {<<>>, TD_plain, TD_permit, TD_max, TD_value(29), TD_value(30)},
          message : {"absent", "clean", "critical_secret"}] :
     /\ (~g.has_origin => g.intel.phishing = "clean")
     /\ (g.has_typed_data <=> g.typed_data # <<>>)}

Web3Envelopes ==
  [actor   : {[skill |-> s] : s \in ScanActors},
   action  : {[type |-> "web3_tx", data |-> t] : t \in Web3Txs}
               \cup {[type |-> "web3_sign", data |-> g] : g \in Web3Signs},
   context : {[user_present |-> u, initiating_skill |-> Undefined] : u \in BOOLEAN}]

\* one ActionScanner.decide call
Decide(envelope, lookupResult) ==
  /\ pc = "idle"
  /\ scanCall' = [envelope |-> envelope, lookupResult |-> lookupResult]
  /\ scanResult' = decide(lookupResult, envelope)
  /\ pc' = "scan_done"
  /\ UNCHANGED <<records, hookCall, hookResult, levelCall, levelResult>>
  /\ UNCHANGED <<storageVars, pluginVars, scriptResult>>

NextDecide ==
  \/ /\ pc = "idle"
     /\ \E e \in ScanEnvelopes, l \in LookupResults : Decide(e, l)
  \/ /\ pc = "idle"
     /\ \E e \in Web3Envelopes, l \in Web3LookupResults : Decide(e, l)
  \/ Return

SpecDecide == Init /\ [][NextDecide]_vars

(***************************************************************************)
(* The registry storage on its own                                         *)
(***************************************************************************)
NextRegistry ==
  \/ \E r \in TrustRecords : upsert(r)
  \/ \E r \in TrustRecords, st \in Statuses : updateStatus(r.record_key, st)

SpecRegistry == Init /\ [][NextRegistry]_vars

(***************************************************************************)
(* RegistryStorage call by call.  A call yields where it awaits the file   *)
(* system: readFile in load, mkdir and writeFile in save.  What runs       *)
(* between two such points runs without interruption.                      *)
(***************************************************************************)
\* the records a getRecords issued now would return
storedRecords ==
  IF data.loaded THEN dataRecords(data, defaultRecords)
  ELSE IF file.exists THEN file.records
  ELSE defaultRecords

\* the operation goes on after its load: it changes the records in memory
\* and enters save, or returns
Continue(p, call, d, def) ==
  LET res == afterLoad(call, d, def) IN
  /\ data' = res.mem.data
  /\ defaultRecords' = res.mem.defaultRecords
  /\ calls' = [calls EXCEPT ![p] =
                 IF res.saves
                   THEN [call EXCEPT !.pc = "mkdir", !.outcome = res.outcome]
                   ELSE [call EXCEPT !.pc = "idle", !.outcome = res.outcome]]

\* a call of an operation that starts with `await this.load()`
StartWithLoad(p, op, arg) ==
  LET call == [IdleCall EXCEPT !.op = op, !.arg = arg, !.before = storedRecords] IN
  /\ calls[p].pc = "idle"
  /\ IF data.loaded
       THEN Continue(p, call, data, defaultRecords)
       ELSE /\ calls' = [calls EXCEPT ![p] = [call EXCEPT !.pc = "readFile"]]
            /\ UNCHANGED <<data, defaultRecords>>
  /\ UNCHANGED <<file, engineVars, pluginVars>>

\* a call of an operation that sets this.data without loading
StartWithoutLoad(p, op, arg) ==
  LET call == [IdleCall EXCEPT !.op = op, !.arg = arg, !.before = storedRecords] IN
  /\ calls[p].pc = "idle"
  /\ Continue(p, call, data, defaultRecords)
  /\ UNCHANGED <<file, engineVars, pluginVars>>

Upsert(p, record) == StartWithLoad(p, "upsert", record)

Remove(p, recordKey) == StartWithLoad(p, "remove", recordKey)

UpdateStatus(p, recordKey, status) ==
  StartWithLoad(p, "updateStatus", [recordKey |-> recordKey, status |-> status])

Import(p, importRecords, merge) ==
  IF merge
    THEN StartWithLoad(p, "import", [records |-> importRecords, merge |-> TRUE])
    ELSE StartWithoutLoad(p, "import", [records |-> importRecords, merge |-> FALSE])

Clear(p) == StartWithoutLoad(p, "clear", <<>>)

\* fs.readFile of load has answered: the text of the file, ENOENT, or
\* another error, which load rethrows
ReadFileDone(p, readable) ==
  /\ calls[p].pc = "readFile"
  /\ IF ~readable
       THEN /\ calls' = [calls EXCEPT ![p] = [@ EXCEPT !.pc = "idle", !.outcome = "read_error"]]
            /\ UNCHANGED <<data, defaultRecords>>
     ELSE IF file.exists
       THEN Continue(p, calls[p], parsedRegistry(file.records), defaultRecords)
     ELSE /\ data' = defaultRegistryCopy
          /\ calls' = [calls EXCEPT ![p] = [@ EXCEPT !.pc = "load_mkdir"]]
          /\ UNCHANGED defaultRecords
  /\ UNCHANGED <<file, engineVars, pluginVars>>

\* fs.mkdir of save has answered; on success save stamps this.data and
\* hands JSON.stringify(this.data) to fs.writeFile
MkdirDone(p, ok) ==
  /\ calls[p].pc \in {"mkdir", "load_mkdir"}
  /\ calls' = [calls EXCEPT ![p] =
                 IF ok
                   THEN [@ EXCEPT !.pc = IF @ = "mkdir" THEN "writeFile" ELSE "load_writeFile",
                                  !.snapshot = dataRecords(data, defaultRecords)]
                   ELSE [@ EXCEPT !.pc = "idle", !.outcome = "write_error"]]
  /\ UNCHANGED <<file, data, defaultRecords, engineVars, pluginVars>>

\* fs.writeFile of save has answered; the save of a load that found no file
\* is followed by the rest of the operation
WriteFileDone(p, ok) ==
  /\ calls[p].pc \in {"writeFile", "load_writeFile"}
  /\ IF ~ok
       THEN /\ calls' = [calls EXCEPT ![p] = [@ EXCEPT !.pc = "idle", !.snapshot = <<>>,
                                                      !.outcome = "write_error"]]
            /\ UNCHANGED <<file, data, defaultRecords>>
     ELSE IF calls[p].pc = "writeFile"
       THEN /\ file' = [exists |-> TRUE, records |-> calls[p].snapshot]
            /\ calls' = [calls EXCEPT ![p] = [@ EXCEPT !.pc = "idle", !.snapshot = <<>>]]
            /\ UNCHANGED <<data, defaultRecords>>
     ELSE /\ file' = [exists |-> TRUE, records |-> calls[p].snapshot]
          /\ Continue(p, [calls[p] EXCEPT !.snapshot = <<>>], data, defaultRecords)
  /\ UNCHANGED <<engineVars, pluginVars>>

\* the process ends and a later one constructs a RegistryStorage on the
\* same file: data is null again and DEFAULT_REGISTRY is built anew
NewInstance ==
  /\ \A p \in Callers : calls[p].pc = "idle"
  /\ data.loaded
  /\ data' = NoData
  /\ defaultRecords' = <<>>
  /\ calls' = [p \in Callers |-> IdleCall]
  /\ UNCHANGED <<file, engineVars, pluginVars>>

\* in the same process a RegistryStorage is constructed on another file,
\* which does not exist: its data is null, DEFAULT_REGISTRY is the object
\* the earlier instance copied
OtherInstance ==
  /\ \A p \in Callers : calls[p].pc = "idle"
  /\ data.loaded
  /\ data' = NoData
  /\ file' = NoFile
  /\ calls' = [p \in Callers |-> IdleCall]
  /\ UNCHANGED <<defaultRecords, engineVars, pluginVars>>

\* one caller: every call is awaited before the next is made
NextStorage ==
  \/ \E r \in StorageRecords : Upsert(1, r)
  \/ \E k \in StorageKeys : Remove(1, k)
  \/ \E k \in StorageKeys, st \in Statuses : UpdateStatus(1, k, st)
  \/ \E i \in ImportPayloads, merge \in BOOLEAN : Import(1, i, merge)
  \/ Clear(1)
  \/ \E readable \in BOOLEAN : ReadFileDone(1, readable)
  \/ \E ok \in BOOLEAN : MkdirDone(1, ok)
  \/ \E ok \in BOOLEAN : WriteFileDone(1, ok)
  \/ NewInstance

SpecStorage == Init /\ [][NextStorage]_vars

\* instances made one after the other in one process, each on a file of its
\* own: upsert and clear through the instance in use
NextInstances ==
  \/ \E r \in StorageRecords : Upsert(1, r)
  \/ Clear(1)
  \/ \E readable \in BOOLEAN : ReadFileDone(1, readable)
  \/ \E ok \in BOOLEAN : MkdirDone(1, ok)
  \/ \E ok \in BOOLEAN : WriteFileDone(1, ok)
  \/ OtherInstance

SpecInstances == Init /\ [][NextInstances]_vars

\* the records concurrent callers upsert
ConcurrentRecords ==
  {StorageRecord("skillA", "active"), StorageRecord("skillA", "revoked"),
   StorageRecord("skillB", "active")}

\* two callers, each with one upsert per RegistryStorage instance, running
\* at the same time
NextConcurrent ==
  \/ \E p \in Callers, r \in ConcurrentRecords :
       /\ calls[p].outcome = "none"
       /\ Upsert(p, r)
  \/ \E p \in Callers, readable \in BOOLEAN : ReadFileDone(p, readable)
  \/ \E p \in Callers, ok \in BOOLEAN : MkdirDone(p, ok)
  \/ \E p \in Callers, ok \in BOOLEAN : WriteFileDone(p, ok)
  \/ NewInstance

SpecConcurrent == Init /\ [][NextConcurrent]_vars

(***************************************************************************)
(* The trust registry under revoke, attest and the session-start scan      *)
(***************************************************************************)
\* the content hashes a skill directory can have
ArtifactHashes == {"h1", "h2"}

\* the identity the session-start scan builds for an installed skill
discoveredSkill(name, hash) ==
  [id |-> name, source |-> name, version_ref |-> "0.0.0", artifact_hash |-> hash]

DiscoveredSkills == {discoveredSkill("skillA", h) : h \in ArtifactHashes}

DOT_GLOB == <<".","/","*","*">>

\* what a person attests: a skill at a trust level
AttestRequests ==
  [skill : DiscoveredSkills, trust_level : TrustLevels, capabilities : {CAPABILITY_NONE},
   reviewed_by : {"user"}]

RevokeMatches == {[source |-> "skillA", version_ref |-> "0.0.0"]}

ScanRiskLevels == {"low", "medium", "high", "critical"}

\* SkillRegistry.lookup: a missing or revoked record gives untrusted with
\* the none preset, any other record its stored values
lookup(recs, skill) ==
  LET found == findByKey(recs, generateRecordKey(skill)) IN
  IF found = NoRecord
    THEN [record |-> NoRecord, effective_trust_level |-> "untrusted",
          effective_capabilities |-> CAPABILITY_NONE]
  ELSE IF found.status = "revoked"
    THEN [record |-> found, effective_trust_level |-> "untrusted",
          effective_capabilities |-> CAPABILITY_NONE]
  ELSE [record |-> found, effective_trust_level |-> found.trust_level,
        effective_capabilities |-> found.capabilities]

\* SkillRegistry.forceAttest: an unconditional upsert of an active record
forceAttest(recs, request) ==
  upsertRecords(recs,
    [record_key |-> generateRecordKey(request.skill), skill |-> request.skill,
     trust_level |-> request.trust_level, capabilities |-> request.capabilities,
     status |-> "active", reviewed_by |-> request.reviewed_by])

\* SkillRegistry.revoke: every record of the source and version becomes
\* revoked
revoke(recs, match) ==
  [i \in 1..Len(recs) |->
     IF recs[i].skill.source = match.source /\ recs[i].skill.version_ref = match.version_ref
       THEN [recs[i] EXCEPT !.status = "revoked"]
       ELSE recs[i]]

riskToTrustLevel(riskLevel) ==
  CASE riskLevel = "low" -> "trusted"
    [] riskLevel = "medium" -> "restricted"
    [] OTHER -> "untrusted"

\* the body of the loop of the session-start scan for one skill whose
\* quickScan reports riskLevel
autoScanSkill(recs, skill, riskLevel) ==
  LET existing == lookup(recs, skill) IN
  IF existing.record # NoRecord /\ existing.effective_trust_level # "untrusted"
    THEN recs
    ELSE forceAttest(recs,
           [skill |-> skill, trust_level |-> riskToTrustLevel(riskLevel),
            capabilities |-> [CAPABILITY_NONE EXCEPT !.filesystem_allowlist =
                                IF riskToTrustLevel(riskLevel) = "untrusted"
                                  THEN <<>> ELSE <<DOT_GLOB>>],
            reviewed_by |-> "auto-scan"])

ForceAttest(request) ==
  /\ pc = "idle"
  /\ records' = forceAttest(records, request)
  /\ UNCHANGED <<pc, hookCall, hookResult, scanCall, scanResult, levelCall, levelResult>>
  /\ UNCHANGED <<storageVars, pluginVars, scriptResult>>

Revoke(match) ==
  /\ pc = "idle"
  /\ records' = revoke(records, match)
  /\ UNCHANGED <<pc, hookCall, hookResult, scanCall, scanResult, levelCall, levelResult>>
  /\ UNCHANGED <<storageVars, pluginVars, scriptResult>>

AutoScan(skill, riskLevel) ==
  /\ pc = "idle"
  /\ records' = autoScanSkill(records, skill, riskLevel)
  /\ UNCHANGED <<pc, hookCall, hookResult, scanCall, scanResult, levelCall, levelResult>>
  /\ UNCHANGED <<storageVars, pluginVars, scriptResult>>

NextRevocation ==
  \/ \E request \in AttestRequests : ForceAttest(request)
  \/ \E match \in RevokeMatches : Revoke(match)
  \/ \E skill \in DiscoveredSkills, riskLevel \in ScanRiskLevels : AutoScan(skill, riskLevel)

SpecRevocation == Init /\ [][NextRevocation]_vars

(***************************************************************************)
(* The OpenClaw plugin: registration, plugin scans, the tool-call handler  *)
(***************************************************************************)
\* what no plugin step touches
callVars == <<pc, hookCall, hookResult, scanCall, scanResult, levelCall, levelResult,
              scriptResult>>

\* what quickScan answers for a plugin directory, or that it rejects
ScanOutcomes == {"low", "critical", "throws"}

\* determineTrustLevel of a scan result without risk tags
determineTrustLevel(riskLevel) ==
  CASE riskLevel = "critical" -> "untrusted"
    [] riskLevel \in {"high", "medium"} -> "restricted"
    [] OTHER -> "trusted"

\* inferCapabilities of a scan result without risk tags
inferCapabilities(riskLevel, tools) ==
  LET named(words) == \E t \in tools : \E w \in words : includes(toLowerCase(t), w) IN
  [network_allowlist |->
     IF /\ named({<<"f","e","t","c","h">>, <<"h","t","t","p">>,
                  <<"r","e","q","u","e","s","t">>, <<"b","r","o","w","s","e","r">>})
        /\ riskLevel \notin {"critical", "high"}
       THEN <<STAR>> ELSE <<>>,
   filesystem_allowlist |->
     IF /\ named({<<"f","i","l","e">>, <<"w","r","i","t","e">>, <<"r","e","a","d">>})
        /\ riskLevel # "critical"
       THEN <<DOT_GLOB>> ELSE <<>>,
   exec |->
     IF /\ named({<<"e","x","e","c">>, <<"s","h","e","l","l">>, <<"b","a","s","h">>})
        /\ riskLevel = "low"
       THEN "allow" ELSE "deny",
   secrets_allowlist |-> <<>>]

\* the SkillIdentity scanAndRegisterPlugin builds for a plugin
pluginIdentity(p, hash) ==
  [id |-> p, source |-> p, version_ref |-> "0.0.0", artifact_hash |-> hash]

\* the attestation of a plugin whose scan reported riskLevel
scannedAttestation(p, riskLevel) ==
  [skill |-> pluginIdentity(p, "h1"), trust_level |-> determineTrustLevel(riskLevel),
   capabilities |-> inferCapabilities(riskLevel, toolNames(p)),
   reviewed_by |-> "agentguard:auto-scan"]

\* the attestation of a plugin whose scan or attestation failed
failedAttestation(p) ==
  [skill |-> pluginIdentity(p, "unknown"), trust_level |-> "untrusted",
   capabilities |-> CAPABILITY_NONE, reviewed_by |-> "agentguard:auto-scan"]

\* `for (const toolName of plugin.toolNames) toolToPluginMap.set(toolName, plugin.id)`
mapTools(map, p) == [t \in DOMAIN map |-> IF t \in toolNames(p) THEN p ELSE map[t]]

\* plugins.slice(i, i + CONCURRENCY), i counted from 1
batchAt(i) ==
  {LoadedPlugins[k] : k \in {j \in 1..Len(LoadedPlugins) : i <= j /\ j < i + CONCURRENCY}}

\* the scanAndRegisterPlugin calls that have passed the cache test and have
\* not returned
inFlight(r) == {p \in PluginIds : runs[r].tasks[p].at \in {"scanning", "attesting", "reattesting"}}

\* the quickScan calls that have not answered
scanning(r) == {p \in PluginIds : runs[r].tasks[p].at = "scanning"}

\* registerOpenClawPlugin(api, options): the handlers are installed, and the
\* scan of the loaded plugins is handed to setImmediate when auto-scan is on
RegisterOpenClawPlugin(r, build, skipAutoScan) ==
  /\ runs[r].stage = "none"
  /\ \A q \in Registrations : q < r => runs[q].stage # "none" /\ runs[q].build = build
  /\ runs' = [runs EXCEPT ![r] =
                [NoRun EXCEPT !.stage = IF autoScanEnabled(build, skipAutoScan)
                                          THEN "scheduled" ELSE "registered",
                              !.build = build, !.skipAutoScan = skipAutoScan]]
  /\ UNCHANGED <<records, pluginScanCache, toolToPluginMap, toolCall>>
  /\ UNCHANGED <<callVars, storageVars>>

\* scanAllPlugins from its start, or from the end of `await Promise.all` of
\* a batch, to the next `await Promise.all`: every plugin of the next batch
\* is handed to scanAndRegisterPlugin, which returns at once for a plugin
\* the cache has
ScanAllPlugins(r) ==
  /\ \/ runs[r].stage = "scheduled"
     \/ /\ runs[r].stage = "running"
        /\ \A p \in batchAt(runs[r].i) : runs[r].tasks[p].at = "done"
  /\ LET i == IF runs[r].stage = "scheduled" THEN 1 ELSE runs[r].i + CONCURRENCY IN
     runs' = [runs EXCEPT ![r] =
                IF i > Len(LoadedPlugins)
                  THEN [runs[r] EXCEPT !.stage = "done"]
                  ELSE [runs[r] EXCEPT
                          !.stage = "running", !.i = i,
                          !.tasks = [p \in PluginIds |->
                                       IF p \notin batchAt(i) THEN runs[r].tasks[p]
                                       ELSE IF pluginScanCache[p] # Absent
                                         THEN [at |-> "done", risk |-> "none"]
                                       ELSE [at |-> "scanning", risk |-> "none"]]]]
  /\ UNCHANGED <<records, pluginScanCache, toolToPluginMap, toolCall>>
  /\ UNCHANGED <<callVars, storageVars>>

\* scanAndRegisterPlugin from the answer of quickScan: the cache entry is
\* set; the source that only scans sets the tool names and returns, the
\* other goes on to `await registry.forceAttest`
QuickScanDone(r, p, outcome) ==
  /\ runs[r].tasks[p].at = "scanning"
  /\ pluginScanCache' = [pluginScanCache EXCEPT
                           ![p] = IF outcome = "throws" THEN "unknown" ELSE outcome]
  /\ IF runs[r].build = "scan_only"
       THEN /\ toolToPluginMap' = mapTools(toolToPluginMap, p)
            /\ runs' = [runs EXCEPT ![r].tasks[p] = [at |-> "done", risk |-> "none"]]
       ELSE /\ toolToPluginMap' = toolToPluginMap
            /\ runs' = [runs EXCEPT ![r].tasks[p] =
                          IF outcome = "throws"
                            THEN [at |-> "reattesting", risk |-> "none"]
                            ELSE [at |-> "attesting", risk |-> outcome]]
  /\ UNCHANGED <<records, toolCall>>
  /\ UNCHANGED <<callVars, storageVars>>

\* scanAndRegisterPlugin from the end of `await registry.forceAttest`: a
\* rejection in the try block goes to the catch block, which sets the cache
\* entry and attests again; a rejection in the catch block rejects the call,
\* and with it the Promise.all of scanAllPlugins
AttestDone(r, p, ok) ==
  /\ runs[r].tasks[p].at \in {"attesting", "reattesting"}
  /\ IF ok
       THEN /\ records' = forceAttest(records,
                            IF runs[r].tasks[p].at = "attesting"
                              THEN scannedAttestation(p, runs[r].tasks[p].risk)
                              ELSE failedAttestation(p))
            /\ toolToPluginMap' = mapTools(toolToPluginMap, p)
            /\ runs' = [runs EXCEPT ![r].tasks[p] = [at |-> "done", risk |-> "none"]]
            /\ UNCHANGED pluginScanCache
       ELSE IF runs[r].tasks[p].at = "attesting"
         THEN /\ pluginScanCache' = [pluginScanCache EXCEPT ![p] = "unknown"]
              /\ runs' = [runs EXCEPT ![r].tasks[p] = [at |-> "reattesting", risk |-> "none"]]
              /\ UNCHANGED <<records, toolToPluginMap>>
         ELSE /\ runs' = [runs EXCEPT ![r].tasks[p] = [at |-> "rejected", risk |-> "none"],
                                      ![r].stage = "failed"]
              /\ UNCHANGED <<records, pluginScanCache, toolToPluginMap>>
  /\ UNCHANGED toolCall
  /\ UNCHANGED <<callVars, storageVars>>

\* the session_start handler, for one discovered skill directory: the source
\* that only scans logs the result, the other attests the skill
SessionStart(r, skill, riskLevel) ==
  /\ runs[r].stage # "none"
  /\ sessionScanInstalled(runs[r].build, runs[r].skipAutoScan)
  /\ records' = IF runs[r].build = "scan_only"
                  THEN records
                  ELSE autoScanSkill(records, skill, riskLevel)
  /\ UNCHANGED pluginVars
  /\ UNCHANGED <<callVars, storageVars>>

\* the steps both sources have, for the registrations regs of the sources
\* builds
PluginSteps(regs, builds) ==
  \/ \E r \in regs, build \in builds, skipAutoScan \in SkipAutoScanOptions :
       RegisterOpenClawPlugin(r, build, skipAutoScan)
  \/ \E r \in regs : ScanAllPlugins(r)
  \/ \E r \in regs, p \in PluginIds, outcome \in ScanOutcomes :
       QuickScanDone(r, p, outcome)
  \/ \E r \in regs, riskLevel \in {"low", "critical"} :
       SessionStart(r, discoveredSkill("skillA", "h1"), riskLevel)

\* one registerOpenClawPlugin call, of either source
NextPluginScan ==
  \/ PluginSteps({1}, Builds)
  \/ \E p \in PluginIds, ok \in BOOLEAN : AttestDone(1, p, ok)

SpecPluginScan == Init /\ [][NextPluginScan]_vars

\* two registerOpenClawPlugin calls in one process
NextPluginTwice == PluginSteps(Registrations, {"scan_only"})

SpecPluginTwice == Init /\ [][NextPluginTwice]_vars

\* getPluginIdFromTool: toolToPluginMap.get(toolName) ?? null
getPluginIdFromTool(map, toolName) ==
  IF toolName \in DOMAIN map /\ map[toolName] # Absent THEN map[toolName] ELSE Null

\* getPluginScanResult(pluginId)?.riskLevel
getPluginScanResult(cache, pluginId) ==
  IF pluginId \in DOMAIN cache THEN cache[pluginId] ELSE Absent

\* `return undefined`
NoBlock == [block |-> FALSE, blockReason |-> Undefined]

\* a handler that lets a tool call through when the verdict is ask
beforeToolCall_askAllowed(pluginId, cached, engine, output) ==
  IF pluginId # Null /\ cached = "critical"
    THEN [evaluated |-> FALSE, verdict |-> "none",
          returned |-> [block |-> TRUE, blockReason |-> "plugin has critical security findings"]]
  ELSE IF engine = "unavailable"
    THEN [evaluated |-> FALSE, verdict |-> "none", returned |-> NoBlock]
  ELSE [evaluated |-> TRUE, verdict |-> output.decision,
        returned |-> IF output.decision = "deny"
                       THEN [block |-> TRUE,
                             blockReason |-> IF output.reason \in {Undefined, ""}
                                               THEN "Blocked by GoPlus AgentGuard"
                                               ELSE output.reason]
                       ELSE NoBlock]

\* the before_tool_call handler; pluginId: the plugin of the tool, cached:
\* its cached risk level, engine: whether getAgentGuard() returns or throws,
\* output: what evaluateHook resolves to. A plugin with critical findings is
\* blocked first; a throw inside the try block returns undefined
beforeToolCall(pluginId, cached, engine, output) ==
  IF pluginId # Null /\ cached = "critical"
    THEN [evaluated |-> FALSE, verdict |-> "none",
          returned |-> [block |-> TRUE, blockReason |-> "plugin has critical security findings"]]
  ELSE IF engine = "unavailable"
    THEN [evaluated |-> FALSE, verdict |-> "none", returned |-> NoBlock]
  ELSE [evaluated |-> TRUE, verdict |-> output.decision,
        returned |-> IF output.decision = "deny"
                       THEN [block |-> TRUE,
                             blockReason |-> IF output.reason \in {Undefined, ""}
                                               THEN "Blocked by GoPlus AgentGuard"
                                               ELSE output.reason]
                     ELSE IF output.decision = "ask"
                       THEN [block |-> TRUE,
                             blockReason |-> IF output.reason \in {Undefined, ""}
                                               THEN "Requires confirmation (GoPlus AgentGuard)"
                                               ELSE output.reason]
                     ELSE NoBlock]

\* the tool events the handler is given: exec with a safe, a dangerous and
\* an unknown command, and a tool no action type is mapped to
ToolCallEvents ==
  { raw \in RawInputs("openclaw") :
      \/ raw.tool_name = T_search
      \/ raw.tool_name = T_exec /\ raw.tool_input.command \in {S_echo, S_rm_rf, S_foo} }

\* what the registry answers for the plugin of the tool: no record, or a
\* trusted record with the capabilities of the scan
ToolCallLookups ==
  {UnreadLookup,
   [record |-> FoundRecord, effective_trust_level |-> "trusted",
    effective_capabilities |-> CAPABILITY_NONE]}

\* the environment of the evaluateHook call of the handler: the initiating
\* skill is the plugin of the tool
toolCallEnv(pluginId, lookupResult, decideThrows) ==
  [initiatingSkill |-> pluginId, lookupResult |-> lookupResult,
   decideThrows |-> decideThrows, lookupThrows |-> FALSE]

\* one before_tool_call event, from the event to what the handler returns
BeforeToolCall(r, event, level, lookupResult, decideThrows, engine) ==
  /\ runs[r].stage # "none"
  /\ toolCall = NoCall
  /\ decideThrows => lookupResult = UnreadLookup
  /\ LET pluginId == getPluginIdFromTool(toolToPluginMap, event.tool_name)
         cached == getPluginScanResult(pluginScanCache, pluginId)
         handled == beforeToolCall(pluginId, cached, engine,
                      evaluateHook("openclaw", event, [level |-> level],
                        toolCallEnv(pluginId, lookupResult, decideThrows)).output)
     IN toolCall' = [toolName |-> event.tool_name, pluginId |-> pluginId,
                     cached |-> cached, engine |-> engine,
                     evaluated |-> handled.evaluated, verdict |-> handled.verdict,
                     returned |-> handled.returned]
  /\ UNCHANGED <<records, pluginScanCache, toolToPluginMap, runs>>
  /\ UNCHANGED <<callVars, storageVars>>

\* OpenClaw has taken what the handler returned
ToolCallReturn ==
  /\ toolCall # NoCall
  /\ toolCall' = NoCall
  /\ UNCHANGED <<records, pluginScanCache, toolToPluginMap, runs>>
  /\ UNCHANGED <<callVars, storageVars>>

\* tool calls during and after the plugin scan of one registration
NextToolCall ==
  \/ PluginSteps({1}, {"scan_only"})
  \/ \E event \in ToolCallEvents, level \in {"strict", "balanced", "permissive"},
        lookupResult \in ToolCallLookups, decideThrows \in BOOLEAN,
        engine \in {"loaded", "unavailable"} :
       BeforeToolCall(1, event, level, lookupResult, decideThrows, engine)
  \/ ToolCallReturn

SpecToolCall == Init /\ [][NextToolCall]_vars

(***************************************************************************)
(* ActionScanner.decide on envelopes whose action data is an empty object  *)
(***************************************************************************)
\* the call did not return: its promise is rejected
Raised == [raised |-> TRUE]

\* action.data = {}: every field reads as undefined
EmptyData == [missing |-> TRUE]

S_undefined == <<"u","n","d","e","f","i","n","e","d">>

\* Web3TxData without fields: chain_id is in no allowlist, there is no
\* origin, and tx.chain_id.toString() throws inside the try blocks of the
\* address check and of the simulation
undefinedTx ==
  [chain_id |-> 0, has_origin |-> FALSE,
   intel |-> [configured |-> FALSE, phishing |-> "clean", address |-> "throws",
              simulation |-> "throws", simulation_tags |-> <<>>]]

\* Web3SignData without fields
undefinedSign ==
  [chain_id |-> 0, has_origin |-> FALSE, intel |-> [phishing |-> "clean"],
   has_typed_data |-> FALSE, typed_data |-> <<>>, message |-> "absent"]

\* ActionScanner.decide for action data that may be the empty object.
\* analyzeExecCommand reads fullCommand.toLowerCase() of an undefined
\* command; the filesystem_allowlist callback reads file.path.startsWith or
\* file.path.slice for the first pattern unless that pattern is '*'.
decideAnyData(lookupResult, envelope) ==
  LET capabilities == lookupResult.effective_capabilities
      action       == envelope.action
  IN
  IF action.data # EmptyData THEN decide(lookupResult, envelope)
  ELSE CASE action.type = "exec_command" -> Raised
         [] action.type \in {"read_file", "write_file"} ->
              IF /\ capabilities.filesystem_allowlist # <<>>
                 /\ capabilities.filesystem_allowlist[1] # STAR
                THEN Raised
                ELSE handleFileOperation([path |-> S_undefined], action.type, capabilities)
         [] action.type = "secret_access" ->
              handleSecretAccess([secret_name |-> S_undefined], capabilities)
         [] action.type = "web3_tx" ->
              handleWeb3Tx(undefinedTx, capabilities, envelope.context.user_present)
         [] action.type = "web3_sign" ->
              handleWeb3Sign(undefinedSign, capabilities, envelope.context.user_present)
         [] OTHER -> decide(lookupResult, [envelope EXCEPT !.action.data = [path |-> <<>>]])

\* actions with complete data
CompleteActions ==
  {[type |-> "exec_command",
    data |-> [command |-> c, has_args |-> FALSE, args |-> <<>>, env |-> <<>>]]
     : c \in {S_echo, S_rm_rf}}
  \cup {[type |-> t, data |-> [path |-> P_txt]] : t \in {"read_file", "write_file"}}
  \cup {[type |-> "secret_access", data |-> [secret_name |-> K_my_token]]}
  \cup {[type |-> "web3_tx",
         data |-> [undefinedTx EXCEPT !.chain_id = 1, !.intel.address = "clean"]]}
  \cup {[type |-> "web3_sign", data |-> [undefinedSign EXCEPT !.chain_id = 1]]}
  \cup {[type |-> "unknown_action", data |-> [path |-> <<>>]]}

\* the same actions, and each action type with an empty data object
AnyDataActions ==
  CompleteActions \cup {[type |-> a.type, data |-> EmptyData] : a \in CompleteActions}

AnyDataEnvelopes ==
  [actor   : {[skill |-> s] : s \in ScanActors},
   action  : AnyDataActions,
   context : {[user_present |-> u, initiating_skill |-> Undefined] : u \in BOOLEAN}]

AnyDataLookupResults ==
  {[record |-> FoundRecord, effective_trust_level |-> "trusted",
    effective_capabilities |-> c] : c \in CapabilitySets}
  \cup Web3LookupResults

\* one ActionScanner.decide call, to its PolicyDecision or to its rejection
DecideAnyData(envelope, lookupResult) ==
  /\ pc = "idle"
  /\ scanCall' = [envelope |-> envelope, lookupResult |-> lookupResult]
  /\ scanResult' = decideAnyData(lookupResult, envelope)
  /\ pc' = "scan_done"
  /\ UNCHANGED <<records, hookCall, hookResult, levelCall, levelResult>>
  /\ UNCHANGED <<storageVars, pluginVars, scriptResult>>

NextDecideAnyData ==
  \/ /\ pc = "idle"
     /\ \E e \in AnyDataEnvelopes, l \in AnyDataLookupResults : DecideAnyData(e, l)
  \/ Return

SpecDecideAnyData == Init /\ [][NextDecideAnyData]_vars

(***************************************************************************)
(* The protection-level thresholds on their own                            *)
(***************************************************************************)
\* risk_level is optional in the argument type of the two functions
ThresholdDecisions ==
  [decision : {"allow", "deny", "confirm"}, risk_level : RiskLevels \cup {Undefined}]

\* a config may carry no level, or one that is none of the three
ThresholdConfigs == {[level |-> l] : l \in ConfigLevels \cup {"custom"}}

\* one shouldDenyAtLevel call
ShouldDenyAtLevel(decision, config) ==
  /\ pc = "idle"
  /\ levelCall' = [decision |-> decision, config |-> config]
  /\ levelResult' = [shouldDeny |-> shouldDenyAtLevel(decision, config)]
  /\ pc' = "deny_done"
  /\ UNCHANGED <<records, hookCall, hookResult, scanCall, scanResult>>
  /\ UNCHANGED <<storageVars, pluginVars, scriptResult>>

\* the shouldAskAtLevel call on the same decision and config
ShouldAskAtLevel ==
  /\ pc = "deny_done"
  /\ levelResult' = [shouldDeny |-> levelResult.shouldDeny,
                     shouldAsk  |-> shouldAskAtLevel(levelCall.decision, levelCall.config)]
  /\ pc' = "ask_done"
  /\ UNCHANGED <<records, hookCall, hookResult, scanCall, scanResult, levelCall>>
  /\ UNCHANGED <<storageVars, pluginVars, scriptResult>>

NextLevels ==
  \/ /\ pc = "idle"
     /\ \E d \in ThresholdDecisions, c \in ThresholdConfigs : ShouldDenyAtLevel(d, c)
  \/ ShouldAskAtLevel
  \/ Return

SpecLevels == Init /\ [][NextLevels]_vars

(***************************************************************************)
(* Vocabulary of the properties                                            *)
(***************************************************************************)
Rank(verdict) == CASE verdict = "deny" -> 0 [] verdict = "ask" -> 1 [] verdict = "allow" -> 2

\* the arbitrator table, row by row
TableVerdict(decision, risk_level, level) ==
  CASE level = "strict" ->
         IF decision \in {"deny", "confirm"} THEN "deny" ELSE "allow"
    [] level = "balanced" ->
         IF decision = "deny" THEN "deny"
         ELSE IF decision = "confirm" THEN "ask" ELSE "allow"
    [] level = "permissive" ->
         IF decision = "deny"
           THEN (IF risk_level = "critical" THEN "deny" ELSE "ask")
         ELSE IF decision = "confirm"
           THEN (IF risk_level \in {"high", "critical"} THEN "ask" ELSE "allow")
         ELSE "allow"

\* deny if shouldDeny, else ask if shouldAsk, else allow
ThresholdVerdict(result) ==
  IF result.shouldDeny THEN "deny" ELSE IF result.shouldAsk THEN "ask" ELSE "allow"

\* the hook call of the state, taken apart as evaluateHook takes it apart
HookInput == parseInput(hookCall.adapter, hookCall.rawInput)

HookSkill == hookCall.env.initiatingSkill

HookEnvelope == buildEnvelope(hookCall.adapter, HookInput, HookSkill)

HookActionType == mapToolToActionType(hookCall.adapter, HookInput.toolName)

\* the path the sensitive-path fast check looks at: file_path, else path
HookTargetPath == orElse(HookInput.toolInput.file_path, HookInput.toolInput.path)

\* a pre-event of a mapped tool has been evaluated
HookPreEventDone ==
  /\ pc = "hook_done"
  /\ HookInput.eventType = "pre"
  /\ HookEnvelope # NoEnvelope

HookSensitiveWrite ==
  /\ HookPreEventDone
  /\ HookActionType = "write_file"
  /\ isSensitivePath(HookTargetPath)

\* the evaluation got past the fast check, to the action scanner
HookReachesScanner == HookPreEventDone /\ ~HookSensitiveWrite

\* the verdict of the same call, with the same lookup answer, under level l
HookVerdictAt(l) ==
  evaluateHook(hookCall.adapter, hookCall.rawInput, [level |-> l],
               hookCall.env).output.decision

\* the registry's answer about the initiating skill
HookSkillLookup == hookCall.env.lookupResult

\* the action scanner's decision on the call
HookScanDecision == decide(hookCall.env.lookupResult, HookEnvelope)

ContainsDangerousSubstring(fullCommand) ==
  \E i \in 1..Len(DANGEROUS_COMMANDS) :
    includes(toLowerCase(fullCommand), toLowerCase(DANGEROUS_COMMANDS[i]))

ClassifiedCritical(fullCommand) ==
  ContainsDangerousSubstring(fullCommand) \/ FORK_BOMB_PATTERNS(fullCommand)

StartsWithSafePrefix(fullCommand) ==
  \E i \in 1..Len(SAFE_COMMAND_PREFIXES) :
    \/ toLowerCase(fullCommand) = SAFE_COMMAND_PREFIXES[i]
    \/ startsWith(toLowerCase(fullCommand), SAFE_COMMAND_PREFIXES[i] \o <<" ">>)

ContainsShellMetachar(fullCommand) ==
  \E k \in 1..Len(fullCommand) : fullCommand[k] \in SHELL_METACHARS

ContainsSensitiveCommand(fullCommand) ==
  \E i \in 1..Len(SENSITIVE_COMMANDS) :
    includes(toLowerCase(fullCommand), toLowerCase(SENSITIVE_COMMANDS[i]))

\* an exec_command has been decided by the action scanner
ScanExecDone == pc = "scan_done" /\ scanCall.envelope.action.type = "exec_command"

ScanFullCommand == fullCommandOf(scanCall.envelope.action.data)

ScanCapabilities == scanCall.lookupResult.effective_capabilities

(***************************************************************************)
(* C1                                                                      *)
(***************************************************************************)
\* C1: for every decision, every risk level and every protection level, the
\* verdict read off shouldDenyAtLevel and shouldAskAtLevel (deny if
\* shouldDeny, else ask if shouldAsk, else allow) is the entry of the
\* arbitrator table; a config without level is read as balanced.
C1_ArbitratorTable ==
  (/\ pc = "ask_done"
   /\ levelCall.decision.risk_level \in RiskLevels
   /\ levelCall.config.level \in Levels \cup {Undefined})
  => ThresholdVerdict(levelResult) =
       TableVerdict(levelCall.decision.decision, levelCall.decision.risk_level,
                    IF levelCall.config.level = Undefined THEN "balanced"
                    ELSE levelCall.config.level)

\* a confirm of medium risk has been arbitrated under permissive: allow
C1_Witness ==
  /\ pc = "ask_done"
  /\ levelCall.config.level = "permissive"
  /\ levelCall.decision = [decision |-> "confirm", risk_level |-> "medium"]
  /\ ThresholdVerdict(levelResult) = "allow"

(***************************************************************************)
(* C2                                                                      *)
(***************************************************************************)
\* C2: for every hook input, registry answer and initiating skill, the
\* verdicts of evaluateHook under strict, balanced and permissive are ordered
\* strict <= balanced <= permissive in the order deny < ask < allow, and the
\* verdict returned is the one of the configured level.
C2_LevelOrdering ==
  pc = "hook_done" =>
    /\ Rank(HookVerdictAt("strict")) <= Rank(HookVerdictAt("balanced"))
    /\ Rank(HookVerdictAt("balanced")) <= Rank(HookVerdictAt("permissive"))
    /\ hookResult.output.decision = HookVerdictAt(levelOf(hookCall.config))

\* a call evaluated under balanced whose three verdicts are all different
C2_Witness ==
  /\ pc = "hook_done"
  /\ hookCall.config.level = "balanced"
  /\ hookResult.output.decision = "ask"
  /\ HookVerdictAt("strict") = "deny"
  /\ HookVerdictAt("permissive") = "allow"

C4_CriticalExecAlwaysDenied ==
  (/\ HookReachesScanner
   /\ HookActionType = "exec_command"
   /\ ~hookCall.env.decideThrows
   /\ ClassifiedCritical(fullCommandOf(HookEnvelope.action.data)))
  => hookResult.output.decision = "deny"

(***************************************************************************)
(* C5                                                                      *)
(***************************************************************************)
\* C5, as amended: for every command that starts with a safe-command prefix
\* (exactly, or followed by a space), contains no shell metacharacter, no
\* sensitive-command substring, no dangerous substring and matches no
\* fork-bomb pattern, and for every capability set (exec = deny included),
\* ActionScanner.decide returns allow with risk level low and no tags.
C5_SafeCommandAllowed ==
  (/\ ScanExecDone
   /\ StartsWithSafePrefix(ScanFullCommand)
   /\ ~ContainsShellMetachar(ScanFullCommand)
   /\ ~ContainsSensitiveCommand(ScanFullCommand)
   /\ ~ClassifiedCritical(ScanFullCommand))
  => /\ scanResult.decision = "allow"
     /\ scanResult.risk_level = "low"
     /\ scanResult.risk_tags = <<>>

\* a safe command with arguments of an actor without exec has been allowed
C5_Witness ==
  /\ ScanExecDone
  /\ StartsWithSafePrefix(ScanFullCommand)
  /\ ~ContainsShellMetachar(ScanFullCommand)
  /\ ~ContainsSensitiveCommand(ScanFullCommand)
  /\ ~ClassifiedCritical(ScanFullCommand)
  /\ Len(ScanFullCommand) > 3
  /\ ScanCapabilities.exec = "deny"
  /\ scanResult.decision = "allow"

\* C5, as stated: every command that starts with a safe-command prefix and
\* contains no shell metacharacter and no sensitive-command substring is
\* allowed by ActionScanner.decide under every capability set.
C5_AsStated ==
  (/\ ScanExecDone
   /\ StartsWithSafePrefix(ScanFullCommand)
   /\ ~ContainsShellMetachar(ScanFullCommand)
   /\ ~ContainsSensitiveCommand(ScanFullCommand))
  => scanResult.decision = "allow"

C7_ScannerSensitivePathShortCircuit ==
  (/\ pc = "scan_done"
   /\ scanCall.envelope.action.type = "write_file"
   /\ isSensitivePath(scanCall.envelope.action.data.path))
  => /\ scanResult.decision = "deny"
     /\ scanResult.risk_level = "critical"
     /\ scanResult.risk_tags = <<"SENSITIVE_PATH">>

(***************************************************************************)
(* C8                                                                      *)
(***************************************************************************)
\* the verdict the arbitrator gives the action scanner's decision on the call
HookArbitratedVerdict ==
  IF shouldDenyAtLevel(HookScanDecision, hookCall.config) THEN "deny"
  ELSE IF shouldAskAtLevel(HookScanDecision, hookCall.config) THEN "ask"
  ELSE "allow"

StoredCapabilitiesForbid(actionType, capabilities) ==
  CASE actionType = "exec_command" -> capabilities.exec = "deny"
    [] actionType \in {"write_file", "read_file"} -> capabilities.filesystem_allowlist = <<>>
    [] actionType = "network_request" -> capabilities.network_allowlist = <<>>
    [] OTHER -> FALSE

\* C9: for every pre-event attributed to an initiating skill that has an
\* active registry record whose stored capabilities forbid the action type,
\* evaluateHook returns deny with risk level high and tag
\* CAPABILITY_EXCEEDED, at every protection level. Stated for records above
\* untrusted and for evaluations in which nothing raises.
C9_CapabilityExceededDenied ==
  (/\ HookReachesScanner
   /\ ~hookCall.env.decideThrows
   /\ ~hookCall.env.lookupThrows
   /\ HookSkill # Null
   /\ HookSkillLookup.record # NoRecord
   /\ HookSkillLookup.effective_trust_level # "untrusted"
   /\ StoredCapabilitiesForbid(HookActionType, HookSkillLookup.effective_capabilities))
  => /\ hookResult.output.decision = "deny"
     /\ hookResult.output.riskLevel = "high"
     /\ hookResult.output.riskTags = <<"CAPABILITY_EXCEEDED">>

(***************************************************************************)
(* C10                                                                     *)
(***************************************************************************)
\* the initiating skill is set and is unknown to the registry or untrusted
HookSkillUntrusted ==
  /\ HookReachesScanner
  /\ HookSkill # Null
  /\ \/ HookSkillLookup.record = NoRecord
     \/ HookSkillLookup.effective_trust_level = "untrusted"

ScanDone(type) == pc = "scan_done" /\ scanCall.envelope.action.type = type

\* C11: a network_request whose body_preview holds a secret pattern of
\* priority 90 or more is denied by ActionScanner.decide with risk level
\* critical, whatever the detector's should_block flag and risk level, the
\* capabilities of the actor and user_present.
C11_SecretInBodyDenied ==
  (ScanDone("network_request") /\ scanCall.envelope.action.data.body_priority >= 90)
    => /\ scanResult.decision = "deny"
       /\ scanResult.risk_level = "critical"

\* a critical secret in the body of a request the detector neither blocks
\* nor rates above low, with the user absent
C11_Witness ==
  /\ ScanDone("network_request")
  /\ scanCall.envelope.action.data.body_priority >= 90
  /\ ~scanCall.envelope.action.data.url.answer.should_block
  /\ scanCall.envelope.action.data.url.answer.risk_level = "low"
  /\ ~scanCall.envelope.context.user_present
  /\ scanResult.decision = "deny"

(***************************************************************************)
(* C12                                                                     *)
(***************************************************************************)
ScanNetOrWeb3Done ==
  pc = "scan_done"
    /\ scanCall.envelope.action.type \in {"network_request", "web3_tx", "web3_sign"}

ScanData == scanCall.envelope.action.data

\* the capabilities ask for confirmation or denial of risky transactions
ScanTxPolicyBinds ==
  /\ "web3" \in DOMAIN ScanCapabilities
  /\ ScanCapabilities.web3.tx_policy \in {"confirm_high_risk", "deny"}

\* a transaction whose target address is honeypot-related and not flagged as
\* malicious
ScanHoneypotOnly ==
  /\ scanCall.envelope.action.type = "web3_tx"
  /\ ScanData.intel.address = "honeypot"

\* C12 (amended): for network_request, web3_tx and web3_sign,
\* ActionScanner.decide returns allow together with risk level high or
\* critical only for a web3_tx whose target address is honeypot-related
\* (and not malicious) while the capabilities carry no web3 block or
\* tx_policy allow: that transaction is allowed at risk level high with tag
\* HONEYPOT_RELATED.  In every other case a high or critical result is
\* confirm or deny.
C12_HighRiskNeedsConfirm ==
  (ScanNetOrWeb3Done /\ scanResult.decision = "allow"
     /\ scanResult.risk_level \in {"high", "critical"})
    => /\ ScanHoneypotOnly
       /\ ~ScanTxPolicyBinds
       /\ scanResult.risk_level = "high"
       /\ hasTag(scanResult.risk_tags, "HONEYPOT_RELATED")

\* a transaction with an unlimited approval under tx_policy allow: high,
\* and confirm
C12_Witness ==
  /\ ScanNetOrWeb3Done
  /\ scanCall.envelope.action.type = "web3_tx"
  /\ ScanData.intel.simulation = "unlimited"
  /\ "web3" \in DOMAIN ScanCapabilities
  /\ ScanCapabilities.web3.tx_policy = "allow"
  /\ scanResult.risk_level = "high"
  /\ scanResult.decision = "confirm"

\* C12 as stated: no allow together with risk level high or critical
C12_AsStated ==
  ScanNetOrWeb3Done
    => ~(scanResult.decision = "allow" /\ scanResult.risk_level \in {"high", "critical"})

(***************************************************************************)
(* C13                                                                     *)
(***************************************************************************)
ScanWeb3Done == pc = "scan_done" /\ scanCall.envelope.action.type \in {"web3_tx", "web3_sign"}

\* the chain of the action is among those the actor's capabilities allow;
\* capabilities without a web3 block allow none
ScanChainIsAllowed ==
  /\ "web3" \in DOMAIN ScanCapabilities
  /\ \E i \in 1..Len(ScanCapabilities.web3.chains_allowlist) :
       ScanCapabilities.web3.chains_allowlist[i] = ScanData.chain_id

\* C13: a web3_tx or web3_sign whose chain_id is not among the chains the
\* actor's effective capabilities allow is denied by ActionScanner.decide
\* with tag CHAIN_NOT_ALLOWED, also when the capabilities carry no web3
\* block (the none preset).
C13_ChainNotAllowedDenied ==
  (ScanWeb3Done /\ ~ScanChainIsAllowed)
    => /\ scanResult.decision = "deny"
       /\ hasTag(scanResult.risk_tags, "CHAIN_NOT_ALLOWED")

(***************************************************************************)
(* C14                                                                     *)
(***************************************************************************)
\* the threat-intelligence service is unavailable: it is not configured and
\* every call to it is rejected
ScanIntelUnavailable ==
  /\ pc = "scan_done"
  /\ scanCall.envelope.action.type = "web3_tx"
  /\ ~ScanData.intel.configured
  /\ ScanData.intel.phishing = "throws"
  /\ ScanData.intel.address = "throws"
  /\ ScanData.intel.simulation = "throws"

\* the decision of the rules that need no threat intelligence: the chain
\* allowlist and the transaction policy
ScanRuleBasedDecision ==
  IF "web3" \in DOMAIN ScanCapabilities
       /\ (~ScanChainIsAllowed \/ ScanCapabilities.web3.tx_policy = "deny")
  THEN "deny"
  ELSE "allow"

\* C14: for a web3_tx evaluated while the threat-intelligence service is
\* unavailable, ActionScanner.decide returns the rule-based decision and
\* its risk_tags contain SIMULATION_UNAVAILABLE.
C14_UnavailableIsTagged ==
  ScanIntelUnavailable
    => /\ scanResult.decision = ScanRuleBasedDecision
       /\ hasTag(scanResult.risk_tags, "SIMULATION_UNAVAILABLE")

\* the part of the statement the code does satisfy: the decision is the
\* rule-based one
C14_RuleBasedDecisionOnly ==
  ScanIntelUnavailable => scanResult.decision = ScanRuleBasedDecision

(***************************************************************************)
(* C15                                                                     *)
(***************************************************************************)
ScanUserAbsent == ~scanCall.envelope.context.user_present

\* what decide returns for the same action and actor when the user is present
ScanResultWithUser ==
  decide(scanCall.lookupResult,
         [scanCall.envelope EXCEPT !.context.user_present = TRUE])

HookPostEventDone ==
  /\ pc = "hook_done"
  /\ hookCall.adapter = "claude-code"
  /\ startsWith(hookCall.rawInput.hook_event_name, <<"P","o","s","t">>)

\* C16: for every post-event hook input, whatever the tool, its input and
\* the protection level, evaluateHook returns allow, writes one audit
\* entry for the tool, and consults neither the action scanner nor the
\* registry.
C16_PostEventAuditOnly ==
  HookPostEventDone
    => /\ hookResult.output = allowOnly
       /\ hookResult.output.decision = "allow"
       /\ Len(hookResult.audit) = 1
       /\ hookResult.audit[1].tool_name = hookCall.rawInput.tool_name
       /\ hookResult.audit[1].decision = "allow"
       /\ hookResult.consulted = {}
       /\ records = <<>>

C16_Witness ==
  /\ HookPostEventDone
  /\ hookCall.rawInput.tool_name = T_Bash
  /\ hookCall.rawInput.tool_input.command = S_rm_rf
  /\ hookCall.config.level = "strict"
  /\ hookResult.output.decision = "allow"
  /\ Len(hookResult.audit) = 1

(***************************************************************************)
(* C17                                                                     *)
(***************************************************************************)
\* the call of the caller has ended with the error of a failed write
WriteFailed(p) == calls[p].pc = "idle" /\ calls[p].outcome = "write_error"

\* C17: when the write of the registry file fails during upsert, remove,
\* updateStatus, import or clear, the records a later getRecords or
\* findByKey of the same RegistryStorage returns are those from before the
\* failed call.
C17_FailedWriteLeavesRecords ==
  WriteFailed(1) => storedRecords = calls[1].before

\* the part of the statement the code does satisfy: the failure reaches the
\* caller and the file keeps its content
C17_FailedWriteLeavesFile ==
  [][\A ok \in BOOLEAN :
       (MkdirDone(1, ok) \/ WriteFileDone(1, ok)) /\ WriteFailed(1)' => file' = file]_vars

(***************************************************************************)
(* C18                                                                     *)
(***************************************************************************)
\* both callers have completed an upsert on this RegistryStorage
BothUpsertsDone ==
  \A p \in Callers :
    calls[p].pc = "idle" /\ calls[p].op = "upsert" /\ calls[p].outcome = "ok"

\* the records after the upsert of first and then that of second, from the
\* records first started on
inOrder(first, second) ==
  upsertRecords(upsertRecords(first.before, first.arg), second.arg)

\* C18: when two concurrent upserts on one RegistryStorage have completed,
\* also when they were issued before the first load had completed, the
\* records in memory and in the file are those of running the two upserts
\* in one of the two orders.
C18_UpsertsLinearised ==
  BothUpsertsDone
    => \E order \in {<<1, 2>>, <<2, 1>>} :
         /\ storedRecords = inOrder(calls[order[1]], calls[order[2]])
         /\ file.exists
         /\ file.records = inOrder(calls[order[1]], calls[order[2]])

\* the same for the records in memory alone
C18_NoUpsertLostInMemory ==
  BothUpsertsDone
    => \E order \in {<<1, 2>>, <<2, 1>>} :
         storedRecords = inOrder(calls[order[1]], calls[order[2]])

(***************************************************************************)
(* C19                                                                     *)
(***************************************************************************)
uniqueKeys(recs) ==
  \A i, j \in 1..Len(recs) : recs[i].record_key = recs[j].record_key => i = j

\* C19: whatever sequence of upsert, remove, updateStatus, import (merge or
\* replace) and clear has run, no two stored records, in memory or in the
\* file, have the same record_key.
C19_RecordKeyUnique ==
  uniqueKeys(storedRecords) /\ uniqueKeys(file.records)

(***************************************************************************)
(* C20                                                                     *)
(***************************************************************************)
\* the registry holds records of the source and version, all of them revoked
PairRevoked(source, version_ref) ==
  /\ \E i \in 1..Len(records) :
       records[i].skill.source = source /\ records[i].skill.version_ref = version_ref
  /\ \A i \in 1..Len(records) :
       (records[i].skill.source = source /\ records[i].skill.version_ref = version_ref)
         => records[i].status = "revoked"

\* C20: once the records of a source and version are revoked, the lookup of
\* a matching skill gives untrusted until a re-attest is made explicitly:
\* only such a step leads to a state where the lookup gives anything else,
\* whatever else runs, the session-start scan included.
C20_RevokedUntilReattest ==
  [][\A skill \in DiscoveredSkills :
       (/\ PairRevoked(skill.source, skill.version_ref)
        /\ lookup(records', skill).effective_trust_level # "untrusted")
         => \E request \in AttestRequests : ForceAttest(request)]_vars

\* what does hold: while the records are revoked, the lookup gives untrusted
C20_RevokedIsUntrusted ==
  \A skill \in DiscoveredSkills :
    PairRevoked(skill.source, skill.version_ref)
      => lookup(records, skill).effective_trust_level = "untrusted"

(***************************************************************************)
(* C21                                                                     *)
(***************************************************************************)
\* C21: ActionScanner.decide never raises: for every envelope, one with an
\* unknown action type and one whose action data lacks its fields
\* included, the call ends in a PolicyDecision.
C21_DecideNeverRaises ==
  pc = "scan_done" => scanResult # Raised

\* what does hold: an unknown action type is denied, complete or not
C21_UnknownTypeDenied ==
  (pc = "scan_done" /\ scanCall.envelope.action.type = "unknown_action")
    => /\ scanResult.decision = "deny"
       /\ hasTag(scanResult.risk_tags, "UNKNOWN_ACTION_TYPE")

(***************************************************************************)
(* C25                                                                     *)
(***************************************************************************)
\* C25: every evaluateHook call writes exactly one audit entry, on every
\* path: post event, tool without action type, sensitive path, overlays,
\* arbitration, engine error.
C25_OneAuditEntryPerCall ==
  pc = "hook_done" => Len(hookResult.audit) = 1

\* what does hold: never more than one entry, and exactly one whenever the
\* adapter builds an envelope or the event is a post event
C25_OneAuditEntryPerEnvelope ==
  pc = "hook_done"
    => /\ Len(hookResult.audit) <= 1
       /\ (HookInput.eventType = "post" \/ HookEnvelope # NoEnvelope)
            => Len(hookResult.audit) = 1


(***************************************************************************)
(* C22: plugin scans in flight                                             *)
(***************************************************************************)
\* the quickScan calls of all registrations that have not answered
scansInFlight ==
  {rp \in Registrations \X PluginIds : runs[rp[1]].tasks[rp[2]].at = "scanning"}

\* C22: at most 3 plugin scans are in flight in the process at any time,
\* whatever the number of loaded plugins and of registerOpenClawPlugin calls
\* made with auto-scan enabled
C22_AtMostThreeScans == Cardinality(scansInFlight) <= CONCURRENCY

\* C22, for one call: a scanAllPlugins call has at most 3 scans in flight
C22_AtMostThreePerCall ==
  \A r \in Registrations : Cardinality(scanning(r)) <= CONCURRENCY

(***************************************************************************)
(* C23: the scan cache and the tool map under later steps                  *)
(***************************************************************************)
\* C23, the cache: an entry of the plugin scan cache is never removed or
\* changed by a later step
C23_CacheAppendOnly ==
  [][\A p \in PluginIds :
       pluginScanCache[p] # Absent => pluginScanCache'[p] = pluginScanCache[p]]_vars

\* C23, the tool map: an entry of the tool-name map is never removed or
\* changed by a later step
C23_ToolMapAppendOnly ==
  [][\A t \in PluginTools :
       toolToPluginMap[t] # Absent => toolToPluginMap'[t] = toolToPluginMap[t]]_vars

\* C23: the plugin scan cache and the tool-name map are append-only: once an
\* entry exists, no later step (a second scan of the same plugin racing with
\* the first, a scan failure, another plugin registering the same tool name)
\* removes or changes it
C23_MapsAppendOnly ==
  [][/\ \A p \in PluginIds :
          pluginScanCache[p] # Absent => pluginScanCache'[p] = pluginScanCache[p]
     /\ \A t \in PluginTools :
          toolToPluginMap[t] # Absent => toolToPluginMap'[t] = toolToPluginMap[t]]_vars

\* C23, removal: no step removes an entry of either map
C23_NoEntryRemoved ==
  [][/\ \A p \in PluginIds : pluginScanCache[p] # Absent => pluginScanCache'[p] # Absent
     /\ \A t \in PluginTools : toolToPluginMap[t] # Absent => toolToPluginMap'[t] # Absent]_vars

(***************************************************************************)
(* C24: what registration with default options does to the trust registry  *)
(***************************************************************************)
\* every registerOpenClawPlugin call made so far was given no skipAutoScan
DefaultOptionsOnly ==
  \A r \in Registrations : runs[r].stage # "none" => runs[r].skipAutoScan = "undefined"

\* C24: with default options registerOpenClawPlugin and the handlers it
\* installs (the registration-time plugin scan, the session_start scan)
\* never create or modify a trust-registry record
C24_DefaultOptionsLeaveRegistry == DefaultOptionsOnly => records = <<>>

\* C24, for the source that only scans: no option makes it write a record
C24_ScanOnlyLeavesRegistry ==
  (\A r \in Registrations : runs[r].build # "registering") => records = <<>>


(***************************************************************************)
(* C27: what the before_tool_call handler returns                          *)
(***************************************************************************)
\* the handler returned {block: true, blockReason} exactly when the plugin
\* of the tool is cached critical or evaluateHook returned deny or ask
BlockedIffCriticalOrVerdict ==
  toolCall.returned.block <=>
    \/ (toolCall.pluginId # Null /\ toolCall.cached = "critical")
    \/ toolCall.verdict \in {"deny", "ask"}

\* a plugin cached critical is blocked before evaluateHook is called
CriticalBlockedFirst ==
  (toolCall.pluginId # Null /\ toolCall.cached = "critical")
    => (~toolCall.evaluated /\ toolCall.returned.block
        /\ toolCall.returned.blockReason # Undefined)

C27_AskAndDenyBlocked ==
  (toolCall # NoCall /\ toolCall.verdict \in {"deny", "ask"}) => toolCall.returned.block


(***************************************************************************)
(* C28: commands that are neither dangerous nor on the safe allowlist      *)
(***************************************************************************)
\* the command of the decide call that last ran
ScanCommand == scanCall.envelope.action.data

\* the command leaves analyzeExecCommand by its safe-command return
safeAllowlisted(command) ==
  LET fullCommand == fullCommandOf(command) IN
  /\ ~SHELL_METACHAR_PATTERN(fullCommand)
  /\ ~hasSensitiveCommand(toLowerCase(fullCommand))
  /\ isSafePrefix(toLowerCase(fullCommand))

\* decide ran on an exec command that is neither dangerous nor on the safe
\* allowlist
ScanOrdinaryCommand ==
  /\ pc = "scan_done"
  /\ scanCall.envelope.action.type = "exec_command"
  /\ analyzeExecCommand(ScanCommand, TRUE).risk_level # "critical"
  /\ ~safeAllowlisted(ScanCommand)

C28_WitnessHighAllowed ==
  /\ ScanOrdinaryCommand
  /\ scanCall.lookupResult.effective_capabilities.exec = "allow"
  /\ scanResult.decision = "confirm"
  /\ scanResult.risk_level = "high"


(***************************************************************************)
(* C29: the records of an instance and the other instances of the process  *)
(***************************************************************************)
\* the clear() of the caller has completed
ClearDone(p) == calls[p].pc = "idle" /\ calls[p].op = "clear" /\ calls[p].outcome = "ok"

\* the instance in use has loaded nothing and its file does not exist
FreshInstance == ~data.loaded /\ ~file.exists

\* C29: after clear() the instance holds no records, whatever preceded it,
\* and an instance bound to a file that does not exist holds no record
\* upserted through another instance
C29_InstancesIndependent ==
  /\ ClearDone(1) => storedRecords = <<>>
  /\ FreshInstance => storedRecords = <<>>

\* C29, clear alone: after clear() the instance holds no records
C29_ClearEmpties == ClearDone(1) => storedRecords = <<>>

\* C29, while no record was pushed into the array of DEFAULT_REGISTRY: a
\* completed clear() leaves no record in memory and none in the file
C29_ClearEmptiesParsedData ==
  [][(\E ok \in BOOLEAN : WriteFileDone(1, ok)) /\ ClearDone(1)' /\ defaultRecords = <<>>
       => storedRecords' = <<>> /\ file'.records = <<>>]_vars


(***************************************************************************)
(* C26: the exit protocol of the guard-hook script                         *)
(***************************************************************************)
\* what the script run that last ended did
ScriptRun == scriptResult.run

\* C26: the script exits with code 2 exactly when the verdict is deny, and
\* then a non-empty reason was written to stderr; for ask it exits 0 after
\* one JSON line with permissionDecision ask and a reason on stdout; for
\* allow (post events, unmapped tools, unparseable stdin included) it exits
\* 0 with nothing written to stdout
C26_ExitMatchesVerdict ==
  pc = "script_done" =>
    /\ ScriptRun.exit = 2 <=> ScriptRun.verdict = "deny"
    /\ ScriptRun.exit \in {0, 2}
    /\ ScriptRun.verdict = "deny" =>
         /\ Len(ScriptRun.stderr) = 1
         /\ ScriptRun.stderr[1] # ""
         /\ ScriptRun.stdout = <<>>
    /\ ScriptRun.verdict = "ask" =>
         /\ ScriptRun.exit = 0
         /\ Len(ScriptRun.stdout) = 1
         /\ ScriptRun.stdout[1].permissionDecision = "ask"
         /\ ScriptRun.stdout[1].permissionDecisionReason # ""
    /\ ScriptRun.verdict = "allow" => (ScriptRun.exit = 0 /\ ScriptRun.stdout = <<>>)
    /\ (hookCall.rawInput = Unparseable
        \/ hookCall.rawInput.hook_event_name \in {EV_Post, EV_PostFailure}
        \/ guardHookEnvelope(hookCall.rawInput, hookCall.env.initiatingSkill) = NoEnvelope)
         => (ScriptRun.verdict = "allow" /\ ScriptRun.exit = 0 /\ ScriptRun.stdout = <<>>)

\* the script asked about a command
C26_Witness ==
  /\ pc = "script_done"
  /\ ScriptRun.verdict = "ask"
  /\ ScriptRun.exit = 0
  /\ Len(ScriptRun.stdout) = 1
  /\ hookCall.rawInput.tool_name = T_Bash

\* C26, the other verdicts: a denied command and unparseable stdin
C26_WitnessDeny ==
  pc = "script_done" /\ ScriptRun.verdict = "deny" /\ ScriptRun.exit = 2

(***************************************************************************)
(* C30: the script and evaluateHook with the Claude Code adapter           *)
(***************************************************************************)
\* the decisions of the audit entries written
auditDecisions(audit) == [i \in 1..Len(audit) |-> audit[i].decision]

\* the script ran on a parsed event with the engine loaded
ScriptEvaluated ==
  pc = "script_done" /\ hookCall.rawInput # Unparseable /\ scriptResult.engine = "loaded"

\* C30: for every Claude Code hook input, the same configuration and the
\* same registry state, the script and evaluateHook with ClaudeCodeAdapter
\* give the same verdict and the same audit decision
C30_ScriptEqualsEngine ==
  ScriptEvaluated =>
    /\ ScriptRun.verdict = hookResult.output.decision
    /\ auditDecisions(ScriptRun.audit) = auditDecisions(hookResult.audit)

\* the event is one both implementations read alike: a PreToolUse,
\* PostToolUse or PostToolUseFailure event of a tool other than an mcp__
\* tool, whose input has no path field beside file_path
CommonInput ==
  /\ hookCall.rawInput.hook_event_name \in {EV_Pre, EV_Post, EV_PostFailure}
  /\ ~startsWith(hookCall.rawInput.tool_name, <<"m","c","p","_","_">>)
  /\ hookCall.rawInput.tool_input.path = <<>>

\* C30, on the events both read alike: same verdict, same audit decision
C30_EqualOnCommonInputs ==
  (ScriptEvaluated /\ CommonInput) =>
    /\ ScriptRun.verdict = hookResult.output.decision
    /\ auditDecisions(ScriptRun.audit) = auditDecisions(hookResult.audit)

====
